---- MODULE Spec2Model ----
(***************************************************************************)
(* A model of the JSON-to-ZIP converter: the name sanitizer, the extension *)
(* classifier, the statistics pass, the preview tree builder and the       *)
(* archive builders (library and API route).                               *)
(*                                                                         *)
(* A JavaScript string is a sequence of one-unit strings, so that length,  *)
(* substring search, trimming and truncation are computed unit by unit.    *)
(***************************************************************************)
EXTENDS Integers, Sequences, FiniteSets, TLC

VARIABLES
    sanPc,       \* sanitizer run: "off", "start", "once", "twice"
    rawName,     \* the string handed to sanitizeFileName
    cleanName,   \* sanitizeFileName(rawName)
    cleanTwice,  \* sanitizeFileName(sanitizeFileName(rawName))
    clsPc,       \* classifier run: "off", "start", "done"
    value,       \* the scalar handed to getFileExtension
    ext,         \* getFileExtension(value)
    cvPc,        \* conversion: "off", "idle", "preview", "serializing", "done",
                 \* "failed", "apiSerializing", "responded"
    argData,     \* the parsed JSON value to convert
    argRoot,     \* the rootName argument
    argOptions,  \* the options argument
    now,         \* what new Date().toISOString() returns during the call
    zipFiles,    \* the entries of the JSZip instance
    blob,        \* what generateZipFromJson resolved to: <<>> or <<entries>>
    cvError,     \* what generateZipFromJson rejected with: <<>> or <<cause>>
    tree,        \* what createFileStructure returned: <<>> or <<node>>
    statsOut,    \* what analyzeJsonStructure returned: <<>> or <<statistics>>
    req,         \* the request of the API route: <<>> or <<[method, zipName]>>
    res,         \* the responses the API route has sent, in order
    zipOptions,  \* what zip.generateAsync was called with: <<>> or <<options>>
    calls,       \* the calls of generateZipFromJson run await by await: one
                 \* record per call (arguments, suspended frames, JSZip entries)
    trPc,        \* tree run of the JSON parser module: "off", "start", "built"
    trData,      \* the parsed JSON value handed to generateTreeStructure
    trRoot,      \* its rootName argument
    trNode,      \* the TreeNode generateTreeStructure returned: <<>> or <<node>>
    trFiles,     \* what flattenTreeToFiles returned: <<>> or <<files>>
    trStats,     \* what getTreeStatistics returned: <<>> or <<statistics>>
    trCounts,    \* getFileCount() and getFolderCount() of the root: <<>> or <<counts>>
    jsonInput,        \* Home page state: the text of the JSON editor
    parsedStructure,  \* Home page state: <<>> for null, or <<structure>>
    error,            \* Home page state: the error message, <<>> for ''
    isGenerating,     \* Home page state
    showPreview,      \* Home page state
    generation,  \* the pending call of generateZipFile: <<>> or <<arguments>>
    saved,       \* the saveAs calls so far: file name and archive entries
    genLog       \* per handleGenerateZip run that started a generation: its
                 \* input, outcome, the messages it set and the archives it saved

sanVars == <<sanPc, rawName, cleanName, cleanTwice>>
clsVars == <<clsPc, value, ext>>
cvVars == <<cvPc, argData, argRoot, argOptions, now, zipFiles, blob, cvError, tree,
            statsOut, req, res, zipOptions>>
treeVars == <<trPc, trData, trRoot, trNode, trFiles, trStats, trCounts>>
homeVars == <<jsonInput, parsedStructure, error, isGenerating, showPreview, generation,
              saved, genLog>>
vars == <<sanVars, clsVars, cvVars, calls, treeVars, homeVars>>

(***************************************************************************)
(* Bounds of the model                                                     *)
(***************************************************************************)
\* longest short fragment fed to the sanitizer
MaxFragLen == 3
\* longest fragment appended to a long (padded) name
MaxTailLen == 2
\* most fragments concatenated into a string handed to the classifier
MaxFragments == 3
\* most nodes (scalars, arrays, objects) of a JSON value to convert
MaxNodes == 3

(***************************************************************************)
(* Characters                                                              *)
(***************************************************************************)
\* U+0001, a control character that is not whitespace
CtrlSOH == "\\u0001"

\* the character class of the first replace: [<>:"/\\|?*]
InvalidChars == {"<", ">", ":", "\"", "/", "\\", "|", "?", "*"}

\* the units \s matches, among those the model uses
WhitespaceChars == {" ", "\t", "\n", "\r"}

\* the control characters among those the model uses
ControlChars == {CtrlSOH, "\t", "\n", "\r"}

Min(a, b) == IF a < b THEN a ELSE b

(***************************************************************************)
(* sanitizeFileName                                                        *)
(***************************************************************************)
\* substring(0, 255)
MaxFileNameLength == 255

\* .replace(/[<>:"/\\|?*]/g, '_')
ReplaceInvalid(s) ==
    IF Len(s) = 0 THEN <<>>
    ELSE [i \in 1..Len(s) |-> IF s[i] \in InvalidChars THEN "_" ELSE s[i]]

\* .replace(/C+/g, '_') for a character class C: every maximal run of units
\* of cls becomes one '_'. The string is split in halves and the two results
\* are joined, merging a run that spans the cut.
RECURSIVE CollapseRuns(_, _)
CollapseRuns(s, cls) ==
    IF Len(s) = 0 THEN <<>>
    ELSE IF Len(s) = 1 THEN (IF s[1] \in cls THEN <<"_">> ELSE s)
    ELSE LET m == Len(s) \div 2
             cl == CollapseRuns(SubSeq(s, 1, m), cls)
             cr == CollapseRuns(SubSeq(s, m + 1, Len(s)), cls)
         IN IF s[m] \in cls /\ s[m + 1] \in cls THEN cl \o Tail(cr) ELSE cl \o cr

\* .replace(/\s+/g, '_')
ReplaceWhitespace(s) == CollapseRuns(s, WhitespaceChars)

\* .replace(/_+/g, '_')
CollapseUnderscores(s) == CollapseRuns(s, {"_"})

\* .replace(/^_|_$/g, ''): one '_' at the start and one '_' at the end
TrimUnderscores(s) ==
    LET t == IF Len(s) > 0 /\ s[1] = "_" THEN Tail(s) ELSE s
    IN IF Len(t) > 0 /\ t[Len(t)] = "_" THEN SubSeq(t, 1, Len(t) - 1) ELSE t

\* .substring(0, 255)
Truncate(s) == SubSeq(s, 1, Min(Len(s), MaxFileNameLength))

sanitizeFileName(fileName) ==
    Truncate(TrimUnderscores(CollapseUnderscores(ReplaceWhitespace(ReplaceInvalid(fileName)))))

(***************************************************************************)
(* String helpers (String.prototype.trim / includes / startsWith / endsWith)*)
(***************************************************************************)
SetMin(S) == CHOOSE x \in S : \A y \in S : x <= y
SetMax(S) == CHOOSE x \in S : \A y \in S : x >= y

Trim(s) ==
    LET keep == {i \in 1..Len(s) : s[i] \notin WhitespaceChars}
    IN IF keep = {} THEN <<>> ELSE SubSeq(s, SetMin(keep), SetMax(keep))

Includes(s, sub) ==
    \E i \in 1..(Len(s) - Len(sub) + 1) : SubSeq(s, i, i + Len(sub) - 1) = sub

StartsWith(s, sub) == Len(s) >= Len(sub) /\ SubSeq(s, 1, Len(sub)) = sub

EndsWith(s, sub) ==
    Len(s) >= Len(sub) /\ SubSeq(s, Len(s) - Len(sub) + 1, Len(s)) = sub

(***************************************************************************)
(* JSON.parse, as a recognizer: does the text parse as one JSON value?     *)
(* Every Parse operator takes the text and a position and yields the       *)
(* position after what it consumed, or 0 when the text is no JSON there.   *)
(***************************************************************************)
Digits == {"0", "1", "2", "3", "4", "5", "6", "7", "8", "9"}
HexDigits == Digits \cup {"a", "b", "c", "d", "e", "f", "A", "B", "C", "D", "E", "F"}
JsonWhitespace == {" ", "\t", "\n", "\r"}
JsonEscapes == {"\"", "\\", "/", "b", "f", "n", "r", "t"}

SkipWhile(s, i, cls) ==
    LET stops == {j \in i..Len(s) : s[j] \notin cls}
    IN IF stops = {} THEN Len(s) + 1 ELSE SetMin(stops)

SkipWs(s, i) == SkipWhile(s, i, JsonWhitespace)

MatchLiteral(s, i, lit) ==
    IF i + Len(lit) - 1 <= Len(s) /\ SubSeq(s, i, i + Len(lit) - 1) = lit
    THEN i + Len(lit) ELSE 0

\* digits+ at i: the position after them, or 0 when there is none
ParseDigits(s, i) ==
    IF i <= Len(s) /\ s[i] \in Digits THEN SkipWhile(s, i, Digits) ELSE 0

ParseNumber(s, i) ==
    LET i1 == IF s[i] = "-" THEN i + 1 ELSE i
        i2 == IF i1 > Len(s) \/ s[i1] \notin Digits THEN 0
              ELSE IF s[i1] = "0" THEN i1 + 1 ELSE SkipWhile(s, i1, Digits)
        i3 == IF i2 = 0 THEN 0
              ELSE IF i2 <= Len(s) /\ s[i2] = "." THEN ParseDigits(s, i2 + 1)
              ELSE i2
        i4 == IF i3 = 0 THEN 0
              ELSE IF i3 <= Len(s) /\ s[i3] \in {"e", "E"}
                   THEN IF i3 + 1 <= Len(s) /\ s[i3 + 1] \in {"+", "-"}
                        THEN ParseDigits(s, i3 + 2)
                        ELSE ParseDigits(s, i3 + 1)
              ELSE i3
    IN i4

\* the body of a string literal from position j (after the opening quote)
RECURSIVE ScanString(_, _)
ScanString(s, j) ==
    IF j > Len(s) THEN 0
    ELSE IF s[j] = "\"" THEN j + 1
    ELSE IF s[j] \in ControlChars THEN 0
    ELSE IF s[j] = "\\"
         THEN IF j + 1 > Len(s) THEN 0
              ELSE IF s[j + 1] \in JsonEscapes THEN ScanString(s, j + 2)
              ELSE IF s[j + 1] = "u" /\ j + 5 <= Len(s)
                      /\ \A k \in (j + 2)..(j + 5) : s[k] \in HexDigits
                   THEN ScanString(s, j + 6)
              ELSE 0
    ELSE ScanString(s, j + 1)

RECURSIVE ParseValue(_, _)
RECURSIVE ParseElements(_, _)
RECURSIVE ParseMembers(_, _)

\* a value at i (leading whitespace already skipped)
ParseValue(s, i) ==
    IF i > Len(s) THEN 0
    ELSE IF s[i] = "{"
         THEN LET j == SkipWs(s, i + 1)
              IN IF j <= Len(s) /\ s[j] = "}" THEN j + 1 ELSE ParseMembers(s, j)
    ELSE IF s[i] = "["
         THEN LET j == SkipWs(s, i + 1)
              IN IF j <= Len(s) /\ s[j] = "]" THEN j + 1 ELSE ParseElements(s, j)
    ELSE IF s[i] = "\"" THEN ScanString(s, i + 1)
    ELSE IF s[i] = "-" \/ s[i] \in Digits THEN ParseNumber(s, i)
    ELSE IF s[i] = "t" THEN MatchLiteral(s, i, <<"t", "r", "u", "e">>)
    ELSE IF s[i] = "f" THEN MatchLiteral(s, i, <<"f", "a", "l", "s", "e">>)
    ELSE IF s[i] = "n" THEN MatchLiteral(s, i, <<"n", "u", "l", "l">>)
    ELSE 0

\* value (ws ',' ws value)* ws ']' from i
ParseElements(s, i) ==
    LET v == ParseValue(s, i)
        j == IF v = 0 THEN 0 ELSE SkipWs(s, v)
    IN IF j = 0 \/ j > Len(s) THEN 0
       ELSE IF s[j] = "]" THEN j + 1
       ELSE IF s[j] = "," THEN ParseElements(s, SkipWs(s, j + 1))
       ELSE 0

\* string ws ':' ws value (ws ',' ws member)* ws '}' from i
ParseMembers(s, i) ==
    LET k == IF i <= Len(s) /\ s[i] = "\"" THEN ScanString(s, i + 1) ELSE 0
        c == IF k = 0 THEN 0 ELSE SkipWs(s, k)
        v == IF c = 0 \/ c > Len(s) \/ s[c] # ":" THEN 0
             ELSE ParseValue(s, SkipWs(s, c + 1))
        j == IF v = 0 THEN 0 ELSE SkipWs(s, v)
    IN IF j = 0 \/ j > Len(s) THEN 0
       ELSE IF s[j] = "}" THEN j + 1
       ELSE IF s[j] = "," THEN ParseMembers(s, SkipWs(s, j + 1))
       ELSE 0

\* JSON.parse(text) does not throw
ParsesAsJson(s) ==
    LET v == ParseValue(s, SkipWs(s, 1))
    IN v # 0 /\ SkipWs(s, v) = Len(s) + 1

(***************************************************************************)
(* JSON values. Every value is a record [k, s, c]: k the JavaScript kind,  *)
(* s the text of a scalar (the units of a string, the decimal digits of a  *)
(* number, true/false of a boolean), c the children of a container: the    *)
(* elements of an array, the [key, val] entries of an object in insertion  *)
(* order.                                                                  *)
(***************************************************************************)
DigitChar(d) == <<"0", "1", "2", "3", "4", "5", "6", "7", "8", "9">>[d + 1]

\* Number.prototype.toString for a non-negative integer
RECURSIVE ToDigits(_)
ToDigits(n) ==
    IF n < 10 THEN <<DigitChar(n)>>
    ELSE Append(ToDigits(n \div 10), DigitChar(n % 10))

JNull == [k |-> "null", s |-> <<>>, c |-> <<>>]
JUndefined == [k |-> "undefined", s |-> <<>>, c |-> <<>>]
JBool(b) == [k |-> "boolean",
             s |-> IF b THEN <<"t", "r", "u", "e">> ELSE <<"f", "a", "l", "s", "e">>,
             c |-> <<>>]
JNum(n) == [k |-> "number", s |-> ToDigits(n), c |-> <<>>]
JStr(t) == [k |-> "string", s |-> t, c |-> <<>>]
JArr(items) == [k |-> "array", s |-> <<>>, c |-> items]
JObj(entries) == [k |-> "object", s |-> <<>>, c |-> entries]

\* typeof v === 'object' && v !== null
IsContainer(v) == v.k \in {"array", "object"}

(***************************************************************************)
(* getFileExtension                                                        *)
(***************************************************************************)
ExtJson == <<".", "j", "s", "o", "n">>
ExtHtml == <<".", "h", "t", "m", "l">>
ExtCss == <<".", "c", "s", "s">>
ExtJs == <<".", "j", "s">>
ExtMd == <<".", "m", "d">>
ExtTxt == <<".", "t", "x", "t">>

KwFunction == <<"f", "u", "n", "c", "t", "i", "o", "n">>
KwArrow == <<"=", ">">>
KwVar == <<"v", "a", "r", " ">>
KwConst == <<"c", "o", "n", "s", "t", " ">>
KwLet == <<"l", "e", "t", " ">>
KwImport == <<"i", "m", "p", "o", "r", "t", " ">>

getFileExtension(v) ==
    IF v.k = "string"
    THEN IF ParsesAsJson(v.s) THEN ExtJson
         ELSE IF StartsWith(Trim(v.s), <<"<">>) /\ EndsWith(Trim(v.s), <<">">>)
              THEN ExtHtml
         ELSE IF Includes(v.s, <<"{">>) /\ Includes(v.s, <<"}">>) /\ Includes(v.s, <<":">>)
              THEN ExtCss
         ELSE IF \/ Includes(v.s, KwFunction)
                 \/ Includes(v.s, KwArrow)
                 \/ Includes(v.s, KwVar)
                 \/ Includes(v.s, KwConst)
              THEN ExtJs
         ELSE ExtTxt
    ELSE IF v.k = "number" THEN ExtTxt
    ELSE IF v.k = "boolean" THEN ExtTxt
    ELSE ExtJson

(***************************************************************************)
(* JSON.stringify(v, null, 2) of a scalar or an empty container, and       *)
(* String(v) of a scalar                                                   *)
(***************************************************************************)
TextNull == <<"n", "u", "l", "l">>

\* JSON.stringify(v, null, 2) where v is null, a boolean, a number, {} or []
StringifyPretty(v) ==
    IF v.k = "null" THEN TextNull
    ELSE IF v.k = "object" THEN <<"{", "}">>
    ELSE IF v.k = "array" THEN <<"[", "]">>
    ELSE v.s

\* typeof v === 'string' ? v : JSON.stringify(v, null, 2)
LeafContent(v) == IF v.k = "string" THEN v.s ELSE StringifyPretty(v)

\* String(v) of a scalar
ToStringValue(v) ==
    IF v.k = "null" THEN TextNull
    ELSE IF v.k = "undefined" THEN <<"u", "n", "d", "e", "f", "i", "n", "e", "d">>
    ELSE v.s

\* !v : the falsy values are undefined, null, false, 0 and ''
Falsy(v) ==
    \/ v.k \in {"undefined", "null"}
    \/ v.k = "boolean" /\ v.s = JBool(FALSE).s
    \/ v.k = "number" /\ v.s = <<"0">>
    \/ v.k = "string" /\ v.s = <<>>

\* `item_${i.toString().padStart(3, '0')}` for the array index i (from 0)
PadStart(s, width, fill) ==
    IF Len(s) >= width THEN s ELSE [i \in 1..(width - Len(s)) |-> fill] \o s

ItemPrefix == <<"i", "t", "e", "m", "_">>
ItemPadWidth == 3
PaddedItemName(i) == ItemPrefix \o PadStart(ToDigits(i), ItemPadWidth, "0")

\* `item_${index}`
PlainItemName(i) == ItemPrefix \o ToDigits(i)

(***************************************************************************)
(* The archive (JSZip): entries keyed by their full name, in the order in  *)
(* which the names were first added. An entry is [name, dir, content].     *)
(***************************************************************************)
Slash == <<"/">>

ZipHas(files, name) == \E i \in 1..Len(files) : files[i].name = name

\* this.files[name] = object : a known name keeps its place and is replaced
ZipPut(files, entry) ==
    IF ZipHas(files, entry.name)
    THEN [i \in 1..Len(files) |-> IF files[i].name = entry.name THEN entry ELSE files[i]]
    ELSE Append(files, entry)

ForceTrailingSlash(name) == IF EndsWith(name, Slash) THEN name ELSE name \o Slash

\* the folder a name lies in, without its trailing slash ('' at the top)
ParentFolder(name) ==
    LET path == IF EndsWith(name, Slash) THEN SubSeq(name, 1, Len(name) - 1) ELSE name
        slashes == {i \in 1..Len(path) : path[i] = "/"}
    IN IF slashes = {} \/ SetMax(slashes) = 1 THEN <<>>
       ELSE SubSeq(path, 1, SetMax(slashes) - 1)

\* fileAdd with createFolders: the folders above the name are added first
RECURSIVE ZipAdd(_, _, _, _)
ZipAdd(files, name, isDir, content) ==
    LET full == IF isDir THEN ForceTrailingSlash(name) ELSE name
        parent == ParentFolder(full)
        withParent ==
            IF parent # <<>> /\ ~ZipHas(files, ForceTrailingSlash(parent))
            THEN ZipAdd(files, parent, TRUE, <<>>)
            ELSE files
    IN ZipPut(withParent, [name |-> full, dir |-> isDir, content |-> content])

\* folder.file(name, content), where root is the folder's prefix
ZipFile(files, root, name, content) == ZipAdd(files, root \o name, FALSE, content)

\* the prefix of folder.folder(name); folder('') is the folder itself
ZipFolderRoot(root, name) ==
    IF name = <<>> THEN root ELSE ForceTrailingSlash(root \o name)

\* folder.folder(name): the folder entry is added unless it is known
ZipFolder(files, root, name) ==
    IF name = <<>> \/ ZipHas(files, ZipFolderRoot(root, name)) THEN files
    ELSE ZipAdd(files, root \o name, TRUE, <<>>)

FileEntries(files) == {i \in 1..Len(files) : ~files[i].dir}

(***************************************************************************)
(* processJsonNode                                                         *)
(***************************************************************************)
NameEmptyArray == <<"e", "m", "p", "t", "y", "_", "a", "r", "r", "a", "y", ".", "j", "s", "o", "n">>
NameEmptyObject == <<"e", "m", "p", "t", "y", "_", "o", "b", "j", "e", "c", "t", ".", "j", "s", "o", "n">>
TextEmptyArray == <<"[", "]">>
TextEmptyObject == <<"{", "}">>

\* s.replace(pat, rep) with a string pattern: the first occurrence only
ReplaceFirst(s, pat, rep) ==
    LET hits == {i \in 1..(Len(s) - Len(pat) + 1) : SubSeq(s, i, i + Len(pat) - 1) = pat}
    IN IF hits = {} THEN s
       ELSE LET i == SetMin(hits)
            IN SubSeq(s, 1, i - 1) \o rep \o SubSeq(s, i + Len(pat), Len(s))

\* toISOString().replace(/[:.]/g, '-')
TimestampSuffix(iso) ==
    [i \in 1..Len(iso) |-> IF iso[i] \in {":", "."} THEN "-" ELSE iso[i]]

RECURSIVE processJsonNode(_, _, _, _, _)
RECURSIVE ProcessItems(_, _, _, _, _, _)
RECURSIVE ProcessKeys(_, _, _, _, _, _)

\* the loop over data[i], from child i on
ProcessItems(files, root, data, i, config, iso) ==
    IF i > Len(data.c) THEN files
    ELSE LET item == data.c[i]
             itemName == PaddedItemName(i - 1)
             after ==
                 IF IsContainer(item)
                 THEN processJsonNode(ZipFolder(files, root, itemName),
                                      ZipFolderRoot(root, itemName), item, config, iso)
                 ELSE ZipFile(files, root,
                              sanitizeFileName(itemName \o config.fileExtension),
                              LeafContent(item))
         IN ProcessItems(after, root, data, i + 1, config, iso)

\* the loop over Object.keys(data), from entry i on
ProcessKeys(files, root, data, i, config, iso) ==
    IF i > Len(data.c) THEN files
    ELSE LET sanitizedKey == sanitizeFileName(data.c[i].key)
             val == data.c[i].val
             fileName == sanitizeFileName(sanitizedKey \o config.fileExtension)
             after ==
                 IF IsContainer(val)
                 THEN IF val.k = "array" \/ Len(val.c) > 0
                      THEN processJsonNode(ZipFolder(files, root, sanitizedKey),
                                           ZipFolderRoot(root, sanitizedKey), val, config, iso)
                      ELSE ZipFile(files, root, fileName, StringifyPretty(val))
                 ELSE IF config.timestampFiles
                      THEN ZipFile(files, root,
                                   ReplaceFirst(fileName, config.fileExtension,
                                       <<"_">> \o TimestampSuffix(iso) \o config.fileExtension),
                                   LeafContent(val))
                      ELSE ZipFile(files, root, fileName, LeafContent(val))
         IN ProcessKeys(after, root, data, i + 1, config, iso)

\* the entries after processJsonNode(folder, data, path, config); root is the
\* prefix of folder, iso what new Date().toISOString() returns meanwhile
processJsonNode(files, root, data, config, iso) ==
    IF data.k \in {"null", "undefined"}
    THEN ZipFile(files, root, sanitizeFileName(TextNull \o config.fileExtension), TextNull)
    ELSE IF data.k = "array"
         THEN IF Len(data.c) = 0
              THEN ZipFile(files, root, NameEmptyArray, TextEmptyArray)
              ELSE ProcessItems(files, root, data, 1, config, iso)
    ELSE IF data.k = "object"
         THEN IF Len(data.c) = 0
              THEN ZipFile(files, root, NameEmptyObject, TextEmptyObject)
              ELSE ProcessKeys(files, root, data, 1, config, iso)
    ELSE ZipFile(files, root,
                 sanitizeFileName(<<"v", "a", "l", "u", "e">> \o config.fileExtension),
                 LeafContent(data))

(***************************************************************************)
(* analyzeJsonStructure                                                    *)
(***************************************************************************)
Max(a, b) == IF a > b THEN a ELSE b

\* for an array the elements, for an object Object.values
ChildValues(data) ==
    IF data.k = "array" THEN data.c ELSE [i \in 1..Len(data.c) |-> data.c[i].val]

RECURSIVE analyzeJsonStructure(_, _)
RECURSIVE AnalyzeChildren(_, _, _, _)

\* AnalyzeChildren with fileCount merged like maxDepth: the maximum over the
\* children, not their sum
RECURSIVE AnalyzeChildrenMaxFiles(_, _, _, _)
AnalyzeChildrenMaxFiles(stats, children, i, depth) ==
    IF i > Len(children) THEN stats
    ELSE LET subStats == analyzeJsonStructure(children[i], depth + 1)
         IN AnalyzeChildrenMaxFiles(
                [objectCount |-> stats.objectCount + subStats.objectCount,
                 arrayCount |-> stats.arrayCount + subStats.arrayCount,
                 fileCount |-> Max(stats.fileCount, subStats.fileCount),
                 maxDepth |-> Max(stats.maxDepth, subStats.maxDepth)],
                children, i + 1, depth)

\* AnalyzeChildren with maxDepth merged like the counts: the sum over the
\* children, not their maximum
RECURSIVE AnalyzeChildrenSumDepth(_, _, _, _)
AnalyzeChildrenSumDepth(stats, children, i, depth) ==
    IF i > Len(children) THEN stats
    ELSE LET subStats == analyzeJsonStructure(children[i], depth + 1)
         IN AnalyzeChildrenSumDepth(
                [objectCount |-> stats.objectCount + subStats.objectCount,
                 arrayCount |-> stats.arrayCount + subStats.arrayCount,
                 fileCount |-> stats.fileCount + subStats.fileCount,
                 maxDepth |-> stats.maxDepth + subStats.maxDepth],
                children, i + 1, depth)

\* the forEach that adds the statistics of child i and of those after it
AnalyzeChildren(stats, children, i, depth) ==
    IF i > Len(children) THEN stats
    ELSE LET subStats == analyzeJsonStructure(children[i], depth + 1)
         IN AnalyzeChildren(
                [objectCount |-> stats.objectCount + subStats.objectCount,
                 arrayCount |-> stats.arrayCount + subStats.arrayCount,
                 fileCount |-> stats.fileCount + subStats.fileCount,
                 maxDepth |-> Max(stats.maxDepth, subStats.maxDepth)],
                children, i + 1, depth)

analyzeJsonStructure(data, depth) ==
    LET stats == [objectCount |-> 0, arrayCount |-> 0, fileCount |-> 0, maxDepth |-> depth]
    IN IF data.k = "array"
       THEN AnalyzeChildren([stats EXCEPT !.arrayCount = 1], ChildValues(data), 1, depth)
       ELSE IF data.k = "object"
       THEN AnalyzeChildren([stats EXCEPT !.objectCount = 1], ChildValues(data), 1, depth)
       ELSE [stats EXCEPT !.fileCount = 1]

(***************************************************************************)
(* createFileStructure. A node is [name, type, children, depth,            *)
(* hasChildren]: hasChildren tells whether the object has a children       *)
(* property at all (the file objects pushed into a folder have none).      *)
(***************************************************************************)
FileChild(name, depth) ==
    [name |-> name, type |-> "file", children |-> <<>>, depth |-> depth,
     hasChildren |-> FALSE]

RECURSIVE createFileStructure(_, _, _)

createFileStructure(data, name, depth) ==
    LET node == [name |-> sanitizeFileName(name), type |-> "folder", children |-> <<>>,
                 depth |-> depth, hasChildren |-> TRUE]
    IN IF data.k = "array"
       THEN IF Len(data.c) = 0
            THEN [node EXCEPT !.children = <<FileChild(NameEmptyArray, depth + 1)>>]
            ELSE [node EXCEPT !.children =
                    [i \in 1..Len(data.c) |->
                        IF IsContainer(data.c[i])
                        THEN createFileStructure(data.c[i], PaddedItemName(i - 1), depth + 1)
                        ELSE FileChild(PaddedItemName(i - 1) \o ExtJson, depth + 1)]]
       ELSE IF data.k = "object"
       THEN IF Len(data.c) = 0
            THEN [node EXCEPT !.children = <<FileChild(NameEmptyObject, depth + 1)>>]
            ELSE [node EXCEPT !.children =
                    [i \in 1..Len(data.c) |->
                        IF IsContainer(data.c[i].val)
                        THEN createFileStructure(data.c[i].val,
                                                 sanitizeFileName(data.c[i].key), depth + 1)
                        ELSE FileChild(sanitizeFileName(data.c[i].key) \o ExtJson, depth + 1)]]
       ELSE [node EXCEPT !.type = "file", !.name = name \o ExtJson]

(***************************************************************************)
(* JSON.stringify(v): the compact text of a value                          *)
(***************************************************************************)
EscapeUnit(ch) ==
    IF ch = "\"" THEN <<"\\", "\"">>
    ELSE IF ch = "\\" THEN <<"\\", "\\">>
    ELSE IF ch = "\t" THEN <<"\\", "t">>
    ELSE IF ch = "\n" THEN <<"\\", "n">>
    ELSE IF ch = "\r" THEN <<"\\", "r">>
    ELSE IF ch = CtrlSOH THEN <<"\\", "u", "0", "0", "0", "1">>
    ELSE <<ch>>

RECURSIVE EscapeAll(_)
EscapeAll(s) ==
    IF Len(s) = 0 THEN <<>>
    ELSE IF Len(s) = 1 THEN EscapeUnit(s[1])
    ELSE LET m == Len(s) \div 2
         IN EscapeAll(SubSeq(s, 1, m)) \o EscapeAll(SubSeq(s, m + 1, Len(s)))

JsonQuote(s) == <<"\"">> \o EscapeAll(s) \o <<"\"">>

RECURSIVE StringifyCompact(_)
RECURSIVE StringifyChildren(_, _)

\* the children from i on, separated by commas
StringifyChildren(data, i) ==
    IF i > Len(data.c) THEN <<>>
    ELSE (IF i > 1 THEN <<",">> ELSE <<>>)
         \o (IF data.k = "object"
             THEN JsonQuote(data.c[i].key) \o <<":">> \o StringifyCompact(data.c[i].val)
             ELSE StringifyCompact(data.c[i]))
         \o StringifyChildren(data, i + 1)

StringifyCompact(v) ==
    IF v.k = "null" THEN TextNull
    ELSE IF v.k = "string" THEN JsonQuote(v.s)
    ELSE IF v.k = "array" THEN <<"[">> \o StringifyChildren(v, 1) \o <<"]">>
    ELSE IF v.k = "object" THEN <<"{">> \o StringifyChildren(v, 1) \o <<"}">>
    ELSE v.s

(***************************************************************************)
(* generateReadmeContent and generateMetadata. The fixed text of the two   *)
(* templates is kept in whole pieces; what is interpolated is unit by unit.*)
(***************************************************************************)
NameReadme == <<"R", "E", "A", "D", "M", "E", ".", "m", "d">>
NameMetadata == <<"_", "m", "e", "t", "a", "d", "a", "t", "a", ".", "j", "s", "o", "n">>

StatsText(stats) ==
    <<"objectCount: ">> \o ToDigits(stats.objectCount)
        \o <<", arrayCount: ">> \o ToDigits(stats.arrayCount)
        \o <<", fileCount: ">> \o ToDigits(stats.fileCount)
        \o <<", maxDepth: ">> \o ToDigits(stats.maxDepth)

generateReadmeContent(jsonData, rootName, iso) ==
    LET stats == analyzeJsonStructure(jsonData, 0)
    IN <<"# ">> \o rootName \o <<"\n\nGenerated from JSON structure on ">> \o iso
        \o <<"\n\n## Structure Overview\n">>
        \o <<"- **Total Objects**: ">> \o ToDigits(stats.objectCount)
        \o <<"\n- **Total Arrays**: ">> \o ToDigits(stats.arrayCount)
        \o <<"\n- **Total Files**: ">> \o ToDigits(stats.fileCount)
        \o <<"\n- **Max Depth**: ">> \o ToDigits(stats.maxDepth)
        \o <<"\n\n## File Organization ... ## Notes ...\n">>

\* JSON.stringify(undefined) is undefined, and reading its length throws
MetadataThrows(jsonData) == jsonData.k = "undefined"

\* JSON.stringify(generateMetadata(jsonData, rootName), null, 2)
MetadataText(jsonData, rootName, iso) ==
    <<"{ generatedAt: ">> \o JsonQuote(iso)
        \o <<", rootName: ">> \o JsonQuote(rootName)
        \o <<", originalSize: ">> \o ToDigits(Len(StringifyCompact(jsonData)))
        \o <<", statistics: { ">> \o StatsText(analyzeJsonStructure(jsonData, 0))
        \o <<" }, version: 1.0.0 }">>

(***************************************************************************)
(* generateZipFromJson up to the call of generateAsync                     *)
(***************************************************************************)
DefaultConfig ==
    [includeMetadata |-> TRUE, fileExtension |-> ExtJson, createReadme |-> TRUE,
     timestampFiles |-> FALSE]

\* { ...options, ...defaults }: the defaults spread last win over the options
MergeConfigDefaultsWin(options) ==
    [name \in (DOMAIN DefaultConfig) \cup (DOMAIN options) |->
        IF name \in DOMAIN DefaultConfig THEN DefaultConfig[name] ELSE options[name]]

\* { ...defaults, ...options }
MergeConfig(options) ==
    [name \in (DOMAIN DefaultConfig) \cup (DOMAIN options) |->
        IF name \in DOMAIN options THEN options[name] ELSE DefaultConfig[name]]

\* the entries of the archive when generateAsync is called, and whether an
\* exception was thrown before
BuildZip(jsonData, rootName, options, iso) ==
    LET config == MergeConfig(options)
        rootFolder == ZipFolderRoot(<<>>, rootName)
        created == ZipFolder(<<>>, <<>>, rootName)
        walked == processJsonNode(created, rootFolder, jsonData, config, iso)
        withReadme ==
            IF config.createReadme
            THEN ZipFile(walked, rootFolder, NameReadme,
                         generateReadmeContent(jsonData, rootName, iso))
            ELSE walked
    IN IF config.includeMetadata /\ MetadataThrows(jsonData)
       THEN [threw |-> TRUE, files |-> withReadme]
       ELSE [threw |-> FALSE,
             files |-> IF config.includeMetadata
                       THEN ZipFile(withReadme, rootFolder, NameMetadata,
                                    MetadataText(jsonData, rootName, iso))
                       ELSE withReadme]

(***************************************************************************)
(* The API route: processJsonStructure and the handler's metadata          *)
(***************************************************************************)
ApiInvalidToUnderscore(key) == ReplaceInvalid(key)

\* currentPath ? `${currentPath}/${name}` : name
JoinPath(currentPath, name) ==
    IF currentPath # <<>> THEN currentPath \o Slash \o name ELSE name

RECURSIVE processJsonStructure(_, _, _)
RECURSIVE ApiItems(_, _, _, _)
RECURSIVE ApiEntries(_, _, _, _)

ApiItems(files, obj, currentPath, i) ==
    IF i > Len(obj.c) THEN files
    ELSE LET item == obj.c[i]
             itemPath == JoinPath(currentPath, PlainItemName(i - 1))
             after ==
                 IF IsContainer(item)
                 THEN processJsonStructure(files, item, itemPath)
                 ELSE ZipAdd(files, itemPath \o ExtTxt, FALSE, ToStringValue(item))
         IN ApiItems(after, obj, currentPath, i + 1)

ApiEntries(files, obj, currentPath, i) ==
    IF i > Len(obj.c) THEN files
    ELSE LET val == obj.c[i].val
             itemPath == JoinPath(currentPath, ApiInvalidToUnderscore(obj.c[i].key))
             after ==
                 IF IsContainer(val)
                 THEN IF Len(val.c) = 0
                      THEN IF ZipHas(files, ForceTrailingSlash(itemPath)) THEN files
                           ELSE ZipAdd(files, itemPath, TRUE, <<>>)
                      ELSE processJsonStructure(files, val, itemPath)
                 ELSE ZipAdd(files,
                             itemPath \o (IF val.k = "string" THEN ExtTxt ELSE ExtJson),
                             FALSE, LeafContent(val))
         IN ApiEntries(after, obj, currentPath, i + 1)

processJsonStructure(files, obj, currentPath) ==
    IF obj.k = "array" THEN ApiItems(files, obj, currentPath, 1)
    ELSE IF obj.k = "object" THEN ApiEntries(files, obj, currentPath, 1)
    ELSE ZipAdd(files,
                IF currentPath # <<>> THEN currentPath ELSE <<"d", "a", "t", "a">> \o ExtTxt,
                FALSE, ToStringValue(obj))

\* JSON.stringify({generatedAt, originalStructure, fileCount}, null, 2)
ApiMetadataText(jsonData, files, iso) ==
    <<"{ generatedAt: ">> \o JsonQuote(iso)
        \o <<", originalStructure: ">> \o StringifyCompact(jsonData)
        \o <<", fileCount: ">> \o ToDigits(Len(files)) \o <<" }">>

\* the entries of the archive when the handler calls generateAsync
ApiBuildZip(jsonData, iso) ==
    LET walked == processJsonStructure(<<>>, jsonData, <<>>)
    IN ZipAdd(walked, NameMetadata, FALSE, ApiMetadataText(jsonData, walked, iso))

(***************************************************************************)
(* Inputs of the sanitizer                                                 *)
(***************************************************************************)
SanChars == {"a", "_", " ", "\t", "<", CtrlSOH}

SeqsUpTo(S, n) == UNION {[1..k -> S] : k \in 0..n}

Pad(n) == [i \in 1..n |-> "a"]

\* short names, and names that reach past the 255-unit limit
ShortNames == SeqsUpTo(SanChars, MaxFragLen)
LongNames ==
    {Pad(n) \o f : n \in {MaxFileNameLength - 1, MaxFileNameLength},
                   f \in SeqsUpTo(SanChars, MaxTailLen)}
NameInputs == ShortNames \cup LongNames

(***************************************************************************)
(* Inputs of the classifier: strings concatenated from fragments that the  *)
(* rules look for, and the scalars that are no strings                     *)
(***************************************************************************)
ClassifierFragments ==
    { KwFunction, KwArrow, KwVar, KwConst, KwLet, KwImport,
      <<"#">>, <<"*", "*">>, <<"<">>, <<">">>, <<"{">>, <<"}">>, <<":">>,
      <<" ">>, <<"1">>, <<"a">>, <<"\"">>, <<"[">>, <<"]">>,
      <<"{", "\"", "a", "\"", ":", "1", "}">> }

RECURSIVE Concatenations(_)
Concatenations(n) ==
    IF n = 0 THEN {<<>>}
    ELSE LET shorter == Concatenations(n - 1)
         IN shorter \cup {t \o f : t \in shorter, f \in ClassifierFragments}

ClassifierInputs ==
    {JStr(t) : t \in Concatenations(MaxFragments)}
        \cup {JNull, JBool(TRUE), JBool(FALSE), JNum(0), JNum(42)}

(***************************************************************************)
(* Inputs of the conversion                                                *)
(***************************************************************************)
TextHtml == <<"<", "d", "i", "v", ">", "h", "i", "<", "/", "d", "i", "v", ">">>

\* the scalars, and the two empty containers: the values of one node
Leaves ==
    {JNull, JBool(TRUE), JNum(1), JNum(2), JStr(TextHtml), JArr(<<>>), JObj(<<>>)}

\* "a b" and "a_b" sanitize to the same name
Keys == {<<"a", " ", "b">>, <<"a", "_", "b">>, <<"x">>}

RECURSIVE ValuesOfSize(_)
RECURSIVE ChildLists(_, _)

\* the sequences of len values that have total nodes together
ChildLists(total, len) ==
    IF len = 0 THEN (IF total = 0 THEN {<<>>} ELSE {})
    ELSE UNION { {<<v>> \o rest : v \in ValuesOfSize(n), rest \in ChildLists(total - n, len - 1)}
                 : n \in 1..(total - (len - 1)) }

KeySeqs(len) == {ks \in [1..len -> Keys] : \A i, j \in 1..len : ks[i] = ks[j] => i = j}

\* the JSON values of exactly n nodes
ValuesOfSize(n) ==
    IF n = 1 THEN Leaves
    ELSE UNION { {JArr(cl) : cl \in ChildLists(n - 1, len)} : len \in 1..(n - 1) }
         \cup UNION { {JObj([i \in 1..len |-> [key |-> ks[i], val |-> cl[i]]])
                          : ks \in KeySeqs(len), cl \in ChildLists(n - 1, len)}
                      : len \in 1..Min(n - 1, Cardinality(Keys)) }

JsonValues == UNION {ValuesOfSize(n) : n \in 1..MaxNodes}

\* what a caller can pass for jsonData
JsonInputs == JsonValues \cup {JUndefined}

RootNames == {<<"r", "o", "o", "t">>, <<"m", "y", " ", "z", "i", "p">>}

IsoNow ==
    <<"2", "0", "2", "6", "-", "1", "1", "-", "0", "3", "T", "1", "2", ":", "0", "0", ":",
      "0", "0", ".", "0", "0", "0", "Z">>

NoOptions == [name \in {} |-> TRUE]

\* option objects: none, each option alone, and two keys no code reads
OptionSets ==
    { NoOptions,
      [includeMetadata |-> FALSE],
      [createReadme |-> FALSE],
      [includeMetadata |-> FALSE, createReadme |-> FALSE],
      [timestampFiles |-> TRUE],
      [fileExtension |-> ExtTxt],
      [defaultExtension |-> ExtTxt],
      [verbose |-> TRUE],
      [compressionLevel |-> 9] }

Methods == {"GET", "POST"}

\* req.body.zipName: absent, with and without the .zip suffix
ZipNames == {<<>>, <<"m", "y", ".", "z", "i", "p">>, <<"m", "y">>}

(***************************************************************************)
(* Every specification runs one part of the program; the variables of the  *)
(* other parts rest.                                                       *)
(***************************************************************************)
SanOff ==
    /\ sanPc = "off"
    /\ rawName = <<>>
    /\ cleanName = <<>>
    /\ cleanTwice = <<>>

ClsOff ==
    /\ clsPc = "off"
    /\ value = JNull
    /\ ext = <<>>

CvOff ==
    /\ cvPc = "off"
    /\ argData = JNull
    /\ argRoot = <<>>
    /\ argOptions = NoOptions
    /\ now = <<>>
    /\ zipFiles = <<>>
    /\ blob = <<>>
    /\ cvError = <<>>
    /\ tree = <<>>
    /\ statsOut = <<>>
    /\ req = <<>>
    /\ res = <<>>
    /\ zipOptions = <<>>

CallsOff == calls = <<>>

TreeOff ==
    /\ trPc = "off"
    /\ trData = JNull
    /\ trRoot = <<>>
    /\ trNode = <<>>
    /\ trFiles = <<>>
    /\ trStats = <<>>
    /\ trCounts = <<>>

\* the Home page as it is mounted: the useState initial values, no generation
\* started
HomeMounted ==
    /\ jsonInput = <<>>
    /\ parsedStructure = <<>>
    /\ error = <<>>
    /\ isGenerating = FALSE
    /\ showPreview = FALSE
    /\ generation = <<>>
    /\ saved = <<>>
    /\ genLog = <<>>

(***************************************************************************)
(* The sanitizer applied once and twice                                    *)
(***************************************************************************)
SanInit ==
    /\ sanPc = "start"
    /\ rawName \in NameInputs
    /\ cleanName = <<>>
    /\ cleanTwice = <<>>
    /\ ClsOff
    /\ CvOff
    /\ CallsOff
    /\ TreeOff
    /\ HomeMounted

Sanitize ==
    /\ sanPc = "start"
    /\ cleanName' = sanitizeFileName(rawName)
    /\ sanPc' = "once"
    /\ UNCHANGED <<rawName, cleanTwice, clsVars, cvVars, calls, treeVars, homeVars>>

SanitizeAgain ==
    /\ sanPc = "once"
    /\ cleanTwice' = sanitizeFileName(cleanName)
    /\ sanPc' = "twice"
    /\ UNCHANGED <<rawName, cleanName, clsVars, cvVars, calls, treeVars, homeVars>>

SanNext == Sanitize \/ SanitizeAgain

SpecSanitize == SanInit /\ [][SanNext]_vars

\* C3: sanitizeFileName is idempotent: sanitizing a sanitized name changes nothing
SanitizeIdempotent == sanPc = "twice" => cleanTwice = cleanName

\* C4: a sanitized name holds no invalid character, no control character and
\* no whitespace
SanitizeNoUnsafeChar ==
    sanPc # "start" =>
        \A i \in 1..Len(cleanName) :
            cleanName[i] \notin (InvalidChars \cup ControlChars \cup WhitespaceChars)

\* C5: a sanitized name is at most 255 units long and neither begins nor ends
\* with '_'
SanitizeBoundedAndTrimmed ==
    sanPc # "start" =>
        /\ Len(cleanName) <= MaxFileNameLength
        /\ Len(cleanName) > 0 => cleanName[1] # "_" /\ cleanName[Len(cleanName)] # "_"

(***************************************************************************)
(* The classifier applied to one scalar                                    *)
(***************************************************************************)
ClsInit ==
    /\ clsPc = "start"
    /\ value \in ClassifierInputs
    /\ ext = <<>>
    /\ SanOff
    /\ CvOff
    /\ CallsOff
    /\ TreeOff
    /\ HomeMounted

Classify ==
    /\ clsPc = "start"
    /\ ext' = getFileExtension(value)
    /\ clsPc' = "done"
    /\ UNCHANGED <<value, sanVars, cvVars, calls, treeVars, homeVars>>

ClsNext == Classify

SpecClassify == ClsInit /\ [][ClsNext]_vars

\* the cascade as the specification lists it
CascadeExtension(t) ==
    IF ParsesAsJson(t) THEN ExtJson
    ELSE IF StartsWith(Trim(t), <<"<">>) /\ EndsWith(Trim(t), <<">">>) THEN ExtHtml
    ELSE IF Includes(t, <<"{">>) /\ Includes(t, <<"}">>) /\ Includes(t, <<":">>) THEN ExtCss
    ELSE IF \E kw \in {KwFunction, KwArrow, KwConst, KwLet, KwVar, KwImport} : Includes(t, kw)
         THEN ExtJs
    ELSE IF Includes(t, <<"#">>) \/ Includes(t, <<"*", "*">>) THEN ExtMd
    ELSE ExtTxt

\* C6: a string gets the extension of the first matching rule of the cascade
\* json, html, css, js (function, =>, const, let, var, import), md (# or **), txt
ClassifierFollowsCascade ==
    clsPc = "done" /\ value.k = "string" => ext = CascadeExtension(value.s)

\* C7: a number, a boolean and null are classified .json
NonStringScalarIsJson ==
    clsPc = "done" /\ value.k \in {"number", "boolean", "null"} => ext = ExtJson

(***************************************************************************)
(* The conversion: one JSON value, and one of the operations on it         *)
(***************************************************************************)
Init ==
    /\ cvPc = "idle"
    /\ argData \in JsonInputs
    /\ argRoot = <<>>
    /\ argOptions = NoOptions
    /\ now = <<>>
    /\ zipFiles = <<>>
    /\ blob = <<>>
    /\ cvError = <<>>
    /\ tree = <<>>
    /\ statsOut = <<>>
    /\ req = <<>>
    /\ res = <<>>
    /\ zipOptions = <<>>
    /\ SanOff
    /\ ClsOff
    /\ CallsOff
    /\ TreeOff
    /\ HomeMounted

\* the compression level both archive builders pass to zip.generateAsync
CompressionLevel == 6

\* the options object of zip.generateAsync
GenerateAsyncOptions(type) ==
    [type |-> type, compression |-> "DEFLATE", level |-> CompressionLevel]

\* createFileStructure(argData, name)
CreateFileStructure ==
    /\ cvPc = "idle"
    /\ \E name \in RootNames :
        /\ argRoot' = name
        /\ tree' = <<createFileStructure(argData, name, 0)>>
    /\ cvPc' = "preview"
    /\ UNCHANGED <<argData, argOptions, now, zipFiles, blob, cvError, statsOut, req, res,
                   sanVars, clsVars, calls, treeVars, homeVars, zipOptions>>

\* analyzeJsonStructure(argData), once the preview is built
AnalyzeJsonStructure ==
    /\ cvPc = "preview"
    /\ statsOut = <<>>
    /\ statsOut' = <<analyzeJsonStructure(argData, 0)>>
    /\ UNCHANGED <<cvPc, argData, argRoot, argOptions, now, zipFiles, blob, cvError, tree,
                   req, res, sanVars, clsVars, calls, treeVars, homeVars, zipOptions>>

\* generateZipFromJson(argData, name, opts) up to its await of generateAsync;
\* an exception thrown on the way rejects the promise
GenerateZipFromJson ==
    /\ cvPc = "idle"
    /\ \E name \in RootNames, opts \in OptionSets :
        LET built == BuildZip(argData, name, opts, IsoNow)
        IN /\ argRoot' = name
           /\ argOptions' = opts
           /\ now' = IsoNow
           /\ zipFiles' = built.files
           /\ cvPc' = IF built.threw THEN "failed" ELSE "serializing"
           /\ cvError' = IF built.threw THEN <<"TypeError">> ELSE <<>>
           /\ zipOptions' = IF built.threw THEN <<>> ELSE <<GenerateAsyncOptions("blob")>>
    /\ UNCHANGED <<argData, blob, tree, statsOut, req, res, sanVars, clsVars, calls, treeVars, homeVars>>

\* zip.generateAsync resolves: the blob holds the entries
GenerateAsyncResolves ==
    /\ cvPc = "serializing"
    /\ blob' = <<zipFiles>>
    /\ cvPc' = "done"
    /\ UNCHANGED <<argData, argRoot, argOptions, now, zipFiles, cvError, tree, statsOut, req,
                   res, sanVars, clsVars, calls, treeVars, homeVars, zipOptions>>

\* zip.generateAsync rejects
GenerateAsyncRejects ==
    /\ cvPc = "serializing"
    /\ cvError' = <<"generateAsync">>
    /\ cvPc' = "failed"
    /\ UNCHANGED <<argData, argRoot, argOptions, now, zipFiles, blob, tree, statsOut, req,
                   res, sanVars, clsVars, calls, treeVars, homeVars, zipOptions>>

NoHeader == <<>>
ContentTypeZip == "application/zip"
ContentTypeJson == "application/json"
DefaultZipName ==
    <<"c", "o", "n", "v", "e", "r", "t", "e", "d", "-", "j", "s", "o", "n", "-",
      "s", "t", "r", "u", "c", "t", "u", "r", "e", ".", "z", "i", "p">>

JsonResponse(status, message) ==
    [status |-> status, contentType |-> ContentTypeJson, disposition |-> NoHeader,
     error |-> message, details |-> <<>>, archive |-> <<>>]

\* the API route up to its await of generateAsync
Handler ==
    /\ cvPc = "idle"
    /\ \E method \in Methods, zipName \in ZipNames :
        /\ req' = <<[method |-> method, zipName |-> zipName]>>
        /\ IF method # "POST"
           THEN /\ res' = <<JsonResponse(405, "Method not allowed")>>
                /\ cvPc' = "responded"
                /\ UNCHANGED <<zipFiles, now, zipOptions>>
           ELSE IF Falsy(argData)
           THEN /\ res' = <<JsonResponse(400, "JSON data is required")>>
                /\ cvPc' = "responded"
                /\ UNCHANGED <<zipFiles, now, zipOptions>>
           ELSE /\ zipFiles' = ApiBuildZip(argData, IsoNow)
                /\ now' = IsoNow
                /\ cvPc' = "apiSerializing"
                /\ zipOptions' = <<GenerateAsyncOptions("nodebuffer")>>
                /\ UNCHANGED res
    /\ UNCHANGED <<argData, argRoot, argOptions, blob, cvError, tree, statsOut, sanVars,
                   clsVars, calls, treeVars, homeVars>>

\* generateAsync resolves and the handler sends the archive
HandlerSendsZip ==
    /\ cvPc = "apiSerializing"
    /\ LET fileName == IF req[1].zipName # <<>> THEN req[1].zipName ELSE DefaultZipName
       IN res' = Append(res,
                    [status |-> 200, contentType |-> ContentTypeZip,
                     disposition |-> fileName, error |-> "", details |-> <<>>,
                     archive |-> zipFiles])
    /\ cvPc' = "responded"
    /\ UNCHANGED <<argData, argRoot, argOptions, now, zipFiles, blob, cvError, tree, statsOut,
                   req, sanVars, clsVars, calls, treeVars, homeVars, zipOptions>>

\* generateAsync rejects and the catch block answers 500, with the message of
\* what was thrown as details
HandlerSendsError ==
    /\ cvPc = "apiSerializing"
    /\ res' = Append(res, [JsonResponse(500, "Failed to generate ZIP file")
                               EXCEPT !.details = <<"generateAsync">>])
    /\ cvPc' = "responded"
    /\ UNCHANGED <<argData, argRoot, argOptions, now, zipFiles, blob, cvError, tree, statsOut,
                   req, sanVars, clsVars, calls, treeVars, homeVars, zipOptions>>

Next ==
    \/ CreateFileStructure
    \/ AnalyzeJsonStructure
    \/ GenerateZipFromJson
    \/ GenerateAsyncResolves
    \/ GenerateAsyncRejects
    \/ Handler
    \/ HandlerSendsZip
    \/ HandlerSendsError

Spec == Init /\ [][Next]_vars

(***************************************************************************)
(* generateZipFromJson await by await. processJsonNode is an async         *)
(* function: a call runs at once up to its first await, and every          *)
(* `await processJsonNode(...)` suspends the caller until a later turn of  *)
(* the event loop, where other calls of generateZipFromJson may run in     *)
(* between. A walk is [stack, files, log]: the suspended frames [root,     *)
(* data, i, path] of processJsonNode, outermost first (root the prefix of  *)
(* the frame's folder, i the child it handles or waits for, path the       *)
(* indices that lead from jsonData to data), the entries of the call's own *)
(* JSZip, and the files written so far in the order of the folder.file     *)
(* calls, each with the path of the leaf it was written for.               *)
(***************************************************************************)
\* folder.file(name, content) for the leaf at path
WalkWrite(st, root, name, content, path) ==
    [st EXCEPT !.files = ZipFile(@, root, name, content),
               !.log = Append(@, [path |-> path, name |-> root \o name])]

RECURSIVE WalkEnter(_, _, _, _, _, _)
RECURSIVE RunToAwait(_, _, _)
RECURSIVE RunToAwaitReversed(_, _, _)

\* RunToAwait with the loops running from the last child to the first
RunToAwaitReversed(st, config, iso) ==
    LET top == Len(st.stack)
        f == st.stack[top]
    IN IF f.i > Len(f.data.c)
       THEN [st EXCEPT !.stack = SubSeq(@, 1, top - 1)]
       ELSE LET idx == Len(f.data.c) - f.i + 1
                child == ChildValues(f.data)[idx]
                childName == IF f.data.k = "array" THEN PaddedItemName(idx - 1)
                             ELSE sanitizeFileName(f.data.c[idx].key)
                fileName == sanitizeFileName(childName \o config.fileExtension)
                next == [st EXCEPT !.stack[top].i = f.i + 1]
            IN IF IsContainer(child) /\ (f.data.k = "array" \/ child.k = "array" \/ Len(child.c) > 0)
               THEN WalkEnter([st EXCEPT !.files = ZipFolder(@, f.root, childName)],
                              ZipFolderRoot(f.root, childName), child, Append(f.path, idx),
                              config, iso)
               ELSE RunToAwaitReversed(
                        WalkWrite(next, f.root, fileName, LeafContent(child),
                                  Append(f.path, idx)),
                        config, iso)

\* the frame on top of the stack runs its loop from child i on, up to the next
\* await: a scalar child is written and the loop goes on; a child that is a
\* container gets its folder and its own call, and the frame then awaits that
\* call; at the end of the loop the frame returns, and its caller stays
\* suspended until a later turn
RunToAwait(st, config, iso) ==
    LET top == Len(st.stack)
        f == st.stack[top]
    IN IF f.i > Len(f.data.c)
       THEN [st EXCEPT !.stack = SubSeq(@, 1, top - 1)]
       ELSE LET child == ChildValues(f.data)[f.i]
                childName == IF f.data.k = "array" THEN PaddedItemName(f.i - 1)
                             ELSE sanitizeFileName(f.data.c[f.i].key)
                fileName == sanitizeFileName(childName \o config.fileExtension)
                next == [st EXCEPT !.stack[top].i = f.i + 1]
            IN IF IsContainer(child) /\ (f.data.k = "array" \/ child.k = "array" \/ Len(child.c) > 0)
               THEN WalkEnter([st EXCEPT !.files = ZipFolder(@, f.root, childName)],
                              ZipFolderRoot(f.root, childName), child, Append(f.path, f.i),
                              config, iso)
               ELSE IF IsContainer(child)
               THEN RunToAwait(
                        WalkWrite(next, f.root, fileName, StringifyPretty(child),
                                  Append(f.path, f.i)),
                        config, iso)
               ELSE IF f.data.k = "object" /\ config.timestampFiles
               THEN RunToAwait(
                        WalkWrite(next, f.root,
                                  ReplaceFirst(fileName, config.fileExtension,
                                      <<"_">> \o TimestampSuffix(iso) \o config.fileExtension),
                                  LeafContent(child), Append(f.path, f.i)),
                        config, iso)
               ELSE RunToAwait(
                        WalkWrite(next, f.root, fileName, LeafContent(child),
                                  Append(f.path, f.i)),
                        config, iso)

\* a call processJsonNode(folder, data, path, config) up to its first await or
\* its return: null, a scalar and an empty container are written and the call
\* returns; any other container starts its loop in a frame of its own
WalkEnter(st, root, data, path, config, iso) ==
    IF data.k \in {"null", "undefined"}
    THEN WalkWrite(st, root, sanitizeFileName(TextNull \o config.fileExtension), TextNull, path)
    ELSE IF IsContainer(data) /\ Len(data.c) = 0
    THEN WalkWrite(st, root,
                   IF data.k = "array" THEN NameEmptyArray ELSE NameEmptyObject,
                   IF data.k = "array" THEN TextEmptyArray ELSE TextEmptyObject, path)
    ELSE IF IsContainer(data)
    THEN RunToAwait([st EXCEPT !.stack =
                        Append(@, [root |-> root, data |-> data, i |-> 1, path |-> path])],
                    config, iso)
    ELSE WalkWrite(st, root,
                   sanitizeFileName(<<"v", "a", "l", "u", "e">> \o config.fileExtension),
                   LeafContent(data), path)

\* WalkResume that goes on two children after the one it awaited
WalkResumeSkipsChild(st, config, iso) ==
    RunToAwait([st EXCEPT !.stack[Len(st.stack)].i = @ + 2], config, iso)

\* the innermost suspended frame goes on after its await: the loop continues
\* with the next child
WalkResume(st, config, iso) ==
    RunToAwait([st EXCEPT !.stack[Len(st.stack)].i = @ + 1], config, iso)

\* generateZipFromJson from its call to its first await: the JSZip instance,
\* the configuration, the root folder and the call of processJsonNode
WalkStart(jsonData, rootName, config, iso) ==
    WalkEnter([stack |-> <<>>, files |-> ZipFolder(<<>>, <<>>, rootName), log |-> <<>>],
              ZipFolderRoot(<<>>, rootName), jsonData, <<>>, config, iso)

\* generateZipFromJson after the walk: README.md and _metadata.json are added
\* to the root folder; threw tells that generateMetadata threw
WalkSummaries(files, jsonData, rootName, config, iso) ==
    LET rootFolder == ZipFolderRoot(<<>>, rootName)
        withReadme ==
            IF config.createReadme
            THEN ZipFile(files, rootFolder, NameReadme,
                         generateReadmeContent(jsonData, rootName, iso))
            ELSE files
    IN IF config.includeMetadata /\ MetadataThrows(jsonData)
       THEN [threw |-> TRUE, files |-> withReadme]
       ELSE [threw |-> FALSE,
             files |-> IF config.includeMetadata
                       THEN ZipFile(withReadme, rootFolder, NameMetadata,
                                    MetadataText(jsonData, rootName, iso))
                       ELSE withReadme]

(***************************************************************************)
(* Calls of generateZipFromJson, each [pc, data, root, options, walk,      *)
(* result, preview, overlapped]: pc is "idle" (not called yet), "walking"  *)
(* (suspended at an await of processJsonNode), "serializing" (awaiting     *)
(* generateAsync), "done" or "failed"; result is <<>> or <<entries of the  *)
(* blob>>; preview is <<>> or <<tree of createFileStructure>>; overlapped  *)
(* records that the call took a turn while another call was suspended.     *)
(***************************************************************************)
\* most calls of generateZipFromJson in flight together
MaxCalls == 2

\* the values two calls in flight convert: nested containers, scalars before
\* and after them
CallLeaves == {JNum(1), JArr(<<>>)}
CallKeys == {<<"x">>}

RECURSIVE BuiltFrom(_, _, _)
BuiltFrom(v, leaves, keys) ==
    IF IsContainer(v) /\ Len(v.c) > 0
    THEN \A i \in 1..Len(v.c) :
            /\ v.k = "object" => v.c[i].key \in keys
            /\ BuiltFrom(ChildValues(v)[i], leaves, keys)
    ELSE v \in leaves

CallInputs == {v \in JsonValues : BuiltFrom(v, CallLeaves, CallKeys)}

CallOptionSets == {NoOptions, [timestampFiles |-> TRUE]}

NewCall(data, root, options) ==
    [pc |-> "idle", data |-> data, root |-> root, options |-> options,
     walk |-> [stack |-> <<>>, files |-> <<>>, log |-> <<>>],
     result |-> <<>>, preview |-> <<>>, overlapped |-> FALSE]

InFlight(c) == calls[c].pc \in {"walking", "serializing"}

OthersInFlight(c) == \E d \in DOMAIN calls : d # c /\ InFlight(d)

\* one call, with any input, root name and options
WalkInit ==
    /\ \E data \in JsonInputs, root \in RootNames, options \in OptionSets :
          calls = <<NewCall(data, root, options)>>
    /\ SanOff
    /\ ClsOff
    /\ CvOff
    /\ TreeOff
    /\ HomeMounted

\* MaxCalls calls for the same root name
ConcurrentInit ==
    /\ calls \in [1..MaxCalls -> {NewCall(data, <<"r", "o", "o", "t">>, options) :
                                     data \in CallInputs, options \in CallOptionSets}]
    /\ SanOff
    /\ ClsOff
    /\ CvOff
    /\ TreeOff
    /\ HomeMounted

\* generateZipFromJson is called and runs up to its first await
StartCall(c) ==
    /\ calls[c].pc = "idle"
    /\ calls' = [calls EXCEPT
                    ![c].walk = WalkStart(calls[c].data, calls[c].root,
                                          MergeConfig(calls[c].options), IsoNow),
                    ![c].pc = "walking",
                    ![c].overlapped = OthersInFlight(c)]
    /\ UNCHANGED <<sanVars, clsVars, cvVars, treeVars, homeVars>>

\* the innermost awaiting processJsonNode of the call goes on to its next await
ResumeWalk(c) ==
    /\ calls[c].pc = "walking"
    /\ calls[c].walk.stack # <<>>
    /\ calls' = [calls EXCEPT
                    ![c].walk = WalkResume(calls[c].walk, MergeConfig(calls[c].options), IsoNow),
                    ![c].overlapped = @ \/ OthersInFlight(c)]
    /\ UNCHANGED <<sanVars, clsVars, cvVars, treeVars, homeVars>>

\* the await of line 27 is over: README, metadata, and the call of generateAsync
FinishWalk(c) ==
    /\ calls[c].pc = "walking"
    /\ calls[c].walk.stack = <<>>
    /\ LET built == WalkSummaries(calls[c].walk.files, calls[c].data, calls[c].root,
                                  MergeConfig(calls[c].options), IsoNow)
       IN calls' = [calls EXCEPT
                       ![c].walk.files = built.files,
                       ![c].pc = IF built.threw THEN "failed" ELSE "serializing",
                       ![c].overlapped = @ \/ OthersInFlight(c)]
    /\ UNCHANGED <<sanVars, clsVars, cvVars, treeVars, homeVars>>

\* generateAsync resolves: the call returns the blob of its JSZip
ResolveCall(c) ==
    /\ calls[c].pc = "serializing"
    /\ calls' = [calls EXCEPT ![c].result = <<calls[c].walk.files>>, ![c].pc = "done"]
    /\ UNCHANGED <<sanVars, clsVars, cvVars, treeVars, homeVars>>

\* generateAsync rejects
RejectCall(c) ==
    /\ calls[c].pc = "serializing"
    /\ calls' = [calls EXCEPT ![c].pc = "failed"]
    /\ UNCHANGED <<sanVars, clsVars, cvVars, treeVars, homeVars>>

\* createFileStructure(data, root) of the call's input
PreviewCall(c) ==
    /\ calls[c].preview = <<>>
    /\ calls' = [calls EXCEPT
                    ![c].preview = <<createFileStructure(calls[c].data, calls[c].root, 0)>>]
    /\ UNCHANGED <<sanVars, clsVars, cvVars, treeVars, homeVars>>

WalkNext ==
    \E c \in DOMAIN calls :
        \/ StartCall(c)
        \/ ResumeWalk(c)
        \/ FinishWalk(c)
        \/ ResolveCall(c)
        \/ RejectCall(c)
        \/ PreviewCall(c)

ConcurrentNext ==
    \E c \in DOMAIN calls :
        \/ StartCall(c)
        \/ ResumeWalk(c)
        \/ FinishWalk(c)
        \/ ResolveCall(c)
        \/ RejectCall(c)

SpecWalk == WalkInit /\ [][WalkNext]_vars

SpecConcurrent == ConcurrentInit /\ [][ConcurrentNext]_vars

(***************************************************************************)
(* What the claims count and expect                                        *)
(***************************************************************************)
RECURSIVE CountFileNodes(_)
RECURSIVE CountFileNodesFrom(_, _)
CountFileNodesFrom(children, i) ==
    IF i > Len(children) THEN 0
    ELSE CountFileNodes(children[i]) + CountFileNodesFrom(children, i + 1)

\* the nodes of type 'file' of a tree
CountFileNodes(node) ==
    IF node.type = "file" THEN 1 ELSE CountFileNodesFrom(node.children, 1)

RECURSIVE EmptyContainers(_)
RECURSIVE EmptyContainersFrom(_, _)
EmptyContainersFrom(children, i) ==
    IF i > Len(children) THEN 0
    ELSE EmptyContainers(children[i]) + EmptyContainersFrom(children, i + 1)

\* the empty objects and empty arrays that occur in a value
EmptyContainers(v) ==
    IF ~IsContainer(v) THEN 0
    ELSE IF Len(v.c) = 0 THEN 1
    ELSE EmptyContainersFrom(ChildValues(v), 1)

IsScalar(v) == v.k \in {"null", "boolean", "number", "string"}

\* C1 as stated: the file nodes of the preview tree are as many as fileCount
TreeFilesEqualFileCount ==
    cvPc = "preview" /\ statsOut # <<>> =>
        CountFileNodes(tree[1]) = statsOut[1].fileCount

\* C1, amended: the file nodes of the tree built by createFileStructure are as
\* many as analyzeJsonStructure's fileCount plus the empty objects and arrays
\* of the value (each of which gets one placeholder file)
TreeFilesEqualFileCountPlusPlaceholders ==
    cvPc = "preview" /\ statsOut # <<>> =>
        CountFileNodes(tree[1]) = statsOut[1].fileCount + EmptyContainers(argData)

\* a tree and the statistics of a value that holds scalars and an empty container
TreeWithPlaceholderAndScalars ==
    /\ cvPc = "preview"
    /\ statsOut # <<>>
    /\ EmptyContainers(argData) > 0
    /\ statsOut[1].fileCount > 0
    /\ CountFileNodes(tree[1]) > 1

\* C2: the archive holds fileCount file entries, one more for the metadata,
\* one more for the README, and one for every empty object or array
ArchiveEntryCount ==
    cvPc = "done" =>
        Cardinality(FileEntries(blob[1])) =
            analyzeJsonStructure(argData, 0).fileCount
            + (IF MergeConfig(argOptions).includeMetadata THEN 1 ELSE 0)
            + (IF MergeConfig(argOptions).createReadme THEN 1 ELSE 0)
            + EmptyContainers(argData)

RECURSIVE ExpectedStringLeaves(_, _)
\* the entries the string leaves of v must have below the folder prefix: the
\* name of the leaf with the extension the classifier gives its content
ExpectedStringLeaves(v, prefix) ==
    IF ~IsContainer(v) THEN {}
    ELSE UNION {
        LET child == ChildValues(v)[i]
            name == IF v.k = "array" THEN PaddedItemName(i - 1)
                    ELSE sanitizeFileName(v.c[i].key)
        IN IF IsContainer(child) THEN ExpectedStringLeaves(child, prefix \o name \o Slash)
           ELSE IF child.k = "string"
           THEN {[name |-> prefix \o name \o getFileExtension(child), dir |-> FALSE,
                  content |-> child.s]}
           ELSE {}
        : i \in 1..Len(v.c) }

EntriesOf(files) == {files[i] : i \in 1..Len(files)}

\* C8: every string leaf is in the archive under the extension the classifier
\* assigns to its content, with the string as content
StringLeavesGetClassifiedExtension ==
    cvPc = "done" =>
        ExpectedStringLeaves(argData, argRoot \o Slash) \subseteq EntriesOf(blob[1])

\* the entries made from the JSON data: all but the README and the metadata
DataEntries(files) ==
    {e \in EntriesOf(files) :
        ~EndsWith(e.name, NameReadme) /\ ~EndsWith(e.name, NameMetadata)}

\* C9: a scalar root becomes one file named rootName + extension, in no folder
\* and with no other data file
ScalarRootIsSingleFile ==
    cvPc = "done" /\ IsScalar(argData) =>
        \E e \in DataEntries(blob[1]) :
            /\ DataEntries(blob[1]) = {e}
            /\ ~e.dir
            /\ e.name = argRoot \o (IF argData.k = "string" THEN getFileExtension(argData)
                                    ELSE ExtJson)
            /\ e.content = LeafContent(argData)

Extensions == {ExtJson, ExtHtml, ExtCss, ExtJs, ExtMd, ExtTxt}

\* the child of index i (from 0) of the root array is named item_NNN in the
\* names given: a scalar is a file item_NNN + extension, and nothing lies under
\* the unpadded item_N
ItemIsPadded(names, prefix, i, child) ==
    /\ IsScalar(child) =>
        \E x \in Extensions : prefix \o PaddedItemName(i) \o x \in names
    /\ \A n \in names :
        \/ StartsWith(n, prefix \o PlainItemName(i) \o <<".">>)
        \/ StartsWith(n, prefix \o PlainItemName(i) \o Slash)
        => PlainItemName(i) = PaddedItemName(i)

NamesOf(files) == {files[i].name : i \in 1..Len(files)}

ChildNames(node) == {node.children[j].name : j \in 1..Len(node.children)}

\* the part of C10 about the library: archive and preview tree
ArrayChildrenArePaddedInLibrary ==
    argData.k = "array" =>
        \A i \in 1..Len(argData.c) :
            /\ cvPc = "done" =>
                ItemIsPadded(NamesOf(blob[1]), argRoot \o Slash, i - 1, argData.c[i])
            /\ cvPc = "preview" =>
                ItemIsPadded(ChildNames(tree[1]), <<>>, i - 1, argData.c[i])

\* C10: in every builder the child of index i of a non-empty array is named
\* item_NNN, NNN the index padded to three digits
ArrayChildrenArePadded ==
    /\ ArrayChildrenArePaddedInLibrary
    /\ argData.k = "array" /\ cvPc = "responded" /\ res[Len(res)].status = 200 =>
        \A i \in 1..Len(argData.c) :
            ItemIsPadded(NamesOf(res[Len(res)].archive), <<>>, i - 1, argData.c[i])

(***************************************************************************)
(* Empty containers, node types, leaf paths and contents                   *)
(***************************************************************************)
\* the name a child of v gets in the library: item_NNN or the sanitized key
ChildName(v, i) ==
    IF v.k = "array" THEN PaddedItemName(i - 1) ELSE sanitizeFileName(v.c[i].key)

RECURSIVE EmptyContainerFolders(_, _)
\* the folder of every empty object and empty array of v (folder the prefix that
\* stands for v itself), with the placeholder file it is to hold
EmptyContainerFolders(v, folder) ==
    IF ~IsContainer(v) THEN {}
    ELSE IF Len(v.c) = 0
    THEN {[folder |-> folder,
           name |-> IF v.k = "array" THEN NameEmptyArray ELSE NameEmptyObject,
           content |-> IF v.k = "array" THEN TextEmptyArray ELSE TextEmptyObject]}
    ELSE UNION {EmptyContainerFolders(ChildValues(v)[i], folder \o ChildName(v, i) \o Slash)
                : i \in 1..Len(v.c)}

\* the entries that lie in a folder or below it, the folder's own entry left out
EntriesBelow(files, folder) ==
    {e \in DataEntries(files) : StartsWith(e.name, folder) /\ e.name # folder}

\* no directory entry of the archive is without an entry below it
NoEmptyFolder(files) ==
    \A d \in EntriesOf(files) :
        d.dir => \E e \in EntriesOf(files) : e.name # d.name /\ StartsWith(e.name, d.name)

\* C11: every empty object and empty array, at the root, as an object value or
\* as an array element, is a folder that holds exactly its placeholder file
\* (empty_object.json with {} or empty_array.json with []); no archive has a
\* folder without entries
EmptyContainerIsFolderWithPlaceholder ==
    /\ cvPc = "done" =>
        /\ \A ph \in EmptyContainerFolders(argData, argRoot \o Slash) :
              EntriesBelow(blob[1], ph.folder) =
                  {[name |-> ph.folder \o ph.name, dir |-> FALSE, content |-> ph.content]}
        /\ NoEmptyFolder(blob[1])
    /\ cvPc = "responded" /\ res[Len(res)].status = 200 =>
        NoEmptyFolder(res[Len(res)].archive)

RECURSIVE NodeMatchesValue(_, _)
\* a node made from the value v is a file exactly for a scalar and a folder
\* exactly for a container, has a children property only as a folder, and so
\* have the nodes made from the children of v
NodeMatchesValue(node, v) ==
    /\ node.type = "file" <=> IsScalar(v)
    /\ node.type = "folder" <=> IsContainer(v)
    /\ node.hasChildren => node.type = "folder"
    /\ IsContainer(v) /\ Len(v.c) > 0 =>
        /\ Len(node.children) = Len(v.c)
        /\ \A i \in 1..Len(v.c) : NodeMatchesValue(node.children[i], ChildValues(v)[i])

\* C12: in the tree of createFileStructure a node is a file iff its value is
\* null, a boolean, a number or a string, a folder iff it is an object or an
\* array, and only folder nodes have children
TreeTypesFollowValues ==
    cvPc = "preview" /\ argData.k # "undefined" => NodeMatchesValue(tree[1], argData)

RECURSIVE ScalarLeaves(_, _, _)
\* the scalar leaves inside the container v: the path of each (prefix, the
\* names of the folders above it, its own name, tail), its content and whether
\* it is a string
ScalarLeaves(v, prefix, tail) ==
    IF ~IsContainer(v) THEN {}
    ELSE UNION {
        LET child == ChildValues(v)[i]
        IN IF IsContainer(child)
           THEN ScalarLeaves(child, prefix \o ChildName(v, i) \o Slash, tail)
           ELSE {[name |-> prefix \o ChildName(v, i) \o tail,
                  content |-> LeafContent(child),
                  isString |-> child.k = "string"]}
        : i \in 1..Len(v.c) }

\* C14: every scalar leaf has an entry whose content is the string itself or
\* the value as JSON text, at the path made of the sanitized names of the
\* folders above it and its own name
LeafContentAndPath ==
    cvPc = "done" /\ ~MergeConfig(argOptions).timestampFiles =>
        \A leaf \in ScalarLeaves(argData, sanitizeFileName(argRoot) \o Slash,
                                 MergeConfig(argOptions).fileExtension) :
            [name |-> leaf.name, dir |-> FALSE, content |-> leaf.content]
                \in EntriesOf(blob[1])

(***************************************************************************)
(* The statistics, counted node by node                                    *)
(***************************************************************************)
RECURSIVE CountKind(_, _)
RECURSIVE CountKindFrom(_, _, _)
CountKindFrom(children, i, kinds) ==
    IF i > Len(children) THEN 0
    ELSE CountKind(children[i], kinds) + CountKindFrom(children, i + 1, kinds)

\* the nodes of v whose kind is one of kinds
CountKind(v, kinds) ==
    (IF v.k \in kinds THEN 1 ELSE 0)
        + (IF IsContainer(v) THEN CountKindFrom(ChildValues(v), 1, kinds) ELSE 0)

RECURSIVE DepthOf(_)
\* the depth of the deepest node of v, v itself at depth 0
DepthOf(v) ==
    IF ~IsContainer(v) \/ Len(v.c) = 0 THEN 0
    ELSE 1 + SetMax({DepthOf(ChildValues(v)[i]) : i \in 1..Len(v.c)})

\* C15: analyzeJsonStructure counts every object once, every array once and
\* every scalar (null too) once, and maxDepth is the depth of the deepest node
StatisticsCountEveryNode ==
    statsOut # <<>> /\ argData.k # "undefined" =>
        /\ statsOut[1].objectCount = CountKind(argData, {"object"})
        /\ statsOut[1].arrayCount = CountKind(argData, {"array"})
        /\ statsOut[1].fileCount = CountKind(argData, {"null", "boolean", "number", "string"})
        /\ statsOut[1].maxDepth = DepthOf(argData)

\* the statistics of an array of two scalars: counts add up, depth does not
StatisticsOfTwoSiblings ==
    /\ statsOut # <<>>
    /\ argData.k = "array"
    /\ Len(argData.c) = 2
    /\ statsOut[1].fileCount = 2
    /\ statsOut[1].arrayCount = 1
    /\ statsOut[1].maxDepth = 1

(***************************************************************************)
(* Options                                                                 *)
(***************************************************************************)
\* the value of an option, or the documented default where it is missing
OptionOr(options, name, default) ==
    IF name \in DOMAIN options THEN options[name] ELSE default

\* the options the interface documents, and the one the code reads besides
DocumentedOptions == {"includeMetadata", "createReadme", "timestampFiles", "defaultExtension"}
ReadOptions == DocumentedOptions \cup {"fileExtension"}

\* the file entries of that name, in whatever folder
EntriesNamed(files, name) ==
    {e \in EntriesOf(files) : ~e.dir /\ (e.name = name \/ EndsWith(e.name, Slash \o name))}

FolderOf(name) == ParentFolder(name)

\* C17: README.md and _metadata.json are entries at the top of the archive, in
\* no folder, and no entry made from the JSON data lies in their folder
SummaryEntriesAreTopLevel ==
    cvPc = "done" =>
        \A e \in EntriesNamed(blob[1], NameReadme) \cup EntriesNamed(blob[1], NameMetadata) :
            /\ FolderOf(e.name) = <<>>
            /\ \A d \in DataEntries(blob[1]) : ~d.dir => FolderOf(d.name) # FolderOf(e.name)

\* C18: with the option defaultExtension given, every leaf that is no string is
\* a file of that extension, and every string leaf is named as without it
DefaultExtensionNamesNonStrings ==
    cvPc = "done" /\ "defaultExtension" \in DOMAIN argOptions =>
        /\ \A leaf \in ScalarLeaves(argData, argRoot \o Slash, argOptions.defaultExtension) :
              ~leaf.isString => leaf.name \in NamesOf(blob[1])
        /\ \A leaf \in ScalarLeaves(argData, argRoot \o Slash, ExtJson) :
              leaf.isString => leaf.name \in NamesOf(blob[1])

\* C19: with timestampFiles on, every file made from a leaf (object value,
\* array element, scalar root) is named with '_' and the timestamp right before
\* its extension; with it off no name holds the timestamp
TimestampOnEveryLeafName ==
    cvPc = "done" /\ argData.k # "undefined" =>
        LET fileExt == MergeConfig(argOptions).fileExtension
            suffix == <<"_">> \o TimestampSuffix(now) \o fileExt
        IN IF MergeConfig(argOptions).timestampFiles
           THEN /\ \A leaf \in ScalarLeaves(argData, argRoot \o Slash, suffix) :
                      leaf.name \in NamesOf(blob[1])
                /\ IsScalar(argData) =>
                      \E e \in DataEntries(blob[1]) : ~e.dir /\ EndsWith(e.name, suffix)
           ELSE \A n \in NamesOf(blob[1]) : ~Includes(n, TimestampSuffix(now))

(***************************************************************************)
(* Order of the writes, and calls in flight together                       *)
(***************************************************************************)
\* p comes before q in a pre-order walk: p is above q, or p turns to an
\* earlier child where the two part
PathBefore(p, q) ==
    \/ Len(p) < Len(q) /\ SubSeq(q, 1, Len(p)) = p
    \/ \E k \in 1..Min(Len(p), Len(q)) :
          /\ SubSeq(p, 1, k - 1) = SubSeq(q, 1, k - 1)
          /\ p[k] < q[k]

RECURSIVE LeafPaths(_, _)
\* the paths of what is written for v: its scalars and its empty containers
LeafPaths(v, path) ==
    IF IsContainer(v) /\ Len(v.c) > 0
    THEN UNION {LeafPaths(ChildValues(v)[i], Append(path, i)) : i \in 1..Len(v.c)}
    ELSE {path}

RECURSIVE TreeFollowsSource(_, _)
\* the children of the node are those of v, in the order of v: child i has the
\* name of element i or of key i, and so below
TreeFollowsSource(node, v) ==
    IsContainer(v) /\ Len(v.c) > 0 =>
        /\ Len(node.children) = Len(v.c)
        /\ \A i \in 1..Len(v.c) :
              LET child == ChildValues(v)[i]
              IN IF IsContainer(child)
                 THEN /\ node.children[i].name = ChildName(v, i)
                      /\ TreeFollowsSource(node.children[i], child)
                 ELSE node.children[i].name = ChildName(v, i) \o ExtJson

ConcurrentCallsAreIndependent ==
    \A c \in DOMAIN calls :
        calls[c].pc = "done" =>
            calls[c].result =
                <<BuildZip(calls[c].data, calls[c].root, calls[c].options, IsoNow).files>>

\* two finished calls for the same root folder and different values, each of
\* which took a turn while the other was suspended at an await
InterleavedCallsDone ==
    /\ DOMAIN calls = 1..MaxCalls
    /\ \A c \in DOMAIN calls : calls[c].pc = "done" /\ calls[c].overlapped
    /\ calls[1].root = calls[2].root
    /\ calls[1].data # calls[2].data
    /\ \E c \in DOMAIN calls : Len(calls[c].walk.log) >= 2

\* C21: generateZipFromJson rejects only when zip.generateAsync rejects: for
\* every input, null and undefined included, and every option setting, building
\* the entries, the README and the metadata raises nothing
FailsOnlyWhenSerializationFails ==
    cvPc = "failed" => cvError = <<"generateAsync">>

RECURSIVE DropShadowed(_)
\* the entries of an object without those a later entry of the same sanitized
\* key shadows
DropShadowed(entries) ==
    IF entries = <<>> THEN <<>>
    ELSE (IF \E j \in 2..Len(entries) :
                sanitizeFileName(entries[j].key) = sanitizeFileName(entries[1].key)
          THEN <<>> ELSE <<entries[1]>>)
         \o DropShadowed(Tail(entries))

\* C23: when sibling keys of the root object sanitize to the same name, the
\* last one in source order wins: the archive holds what it holds for the
\* object without the earlier colliding keys, and nothing of the earlier keys
CollidingKeysLastWins ==
    cvPc = "done" /\ argData.k = "object" /\ DropShadowed(argData.c) # argData.c =>
        DataEntries(blob[1])
            = DataEntries(BuildZip(JObj(DropShadowed(argData.c)), argRoot, argOptions,
                                   now).files)

SuffixZip == <<".", "z", "i", "p">>

\* C24: the API route sends exactly one response per request, with status 405,
\* 400, 200 or 500, and every 200 response has Content-Type application/zip and
\* a Content-Disposition file name that ends in .zip
ApiResponseIsOneZipDownload ==
    cvPc = "responded" =>
        /\ Len(res) = 1
        /\ res[1].status \in {405, 400, 200, 500}
        /\ res[1].status = 200 =>
              /\ res[1].contentType = ContentTypeZip
              /\ EndsWith(res[1].disposition, SuffixZip)

\* C25: the compression level handed to zip.generateAsync is the one the caller
\* supplied, and 6 when the caller supplied none
CompressionLevelFollowsCaller ==
    cvPc \in {"serializing", "done"} =>
        zipOptions[1].level = OptionOr(argOptions, "compressionLevel", 6)

RECURSIVE FilePathsOfNode(_, _)
\* the paths of the file nodes of a preview tree, each with the names of the
\* folders above it
FilePathsOfNode(node, prefix) ==
    IF node.type = "file" THEN {prefix \o node.name}
    ELSE UNION {FilePathsOfNode(node.children[i], prefix \o node.name \o Slash)
                    : i \in 1..Len(node.children)}

\* C28: with README and metadata switched off and the other options at their
\* defaults, the file paths of createFileStructure(v, r) are the paths of the
\* file entries of the archive generateZipFromJson(v, r) makes
PreviewAgreesWithArchive ==
    cvPc = "done" /\ argOptions = [includeMetadata |-> FALSE, createReadme |-> FALSE] =>
        FilePathsOfNode(createFileStructure(argData, argRoot, 0), <<>>)
            = {blob[1][i].name : i \in FileEntries(blob[1])}

(***************************************************************************)
(* The JSON parser module: TreeNode, generateTreeStructure,                *)
(* flattenTreeToFiles and getTreeStatistics. A TreeNode is a record; its   *)
(* value is a JavaScript value ([k, s, c], JNull for null), its id (a      *)
(* random display key) is left out.                                        *)
(***************************************************************************)
TreeNode(name, type, nodeValue, children) ==
    [name |-> name, type |-> type, value |-> nodeValue, children |-> children,
     isExpanded |-> TRUE]

RECURSIVE getFileCount(_)
RECURSIVE FileCountFrom(_, _, _)
\* children.reduce((count, child) => count + child.getFileCount(), count) from
\* the child of index i on
FileCountFrom(children, i, count) ==
    IF i > Len(children) THEN count
    ELSE FileCountFrom(children, i + 1, count + getFileCount(children[i]))

\* TreeNode.getFileCount
getFileCount(node) ==
    IF node.type = "file" THEN 1 ELSE FileCountFrom(node.children, 1, 0)

RECURSIVE getFolderCount(_)
RECURSIVE FolderCountFrom(_, _, _)
FolderCountFrom(children, i, total) ==
    IF i > Len(children) THEN total
    ELSE FolderCountFrom(children, i + 1, total + getFolderCount(children[i]))

\* TreeNode.getFolderCount
getFolderCount(node) ==
    FolderCountFrom(node.children, 1, IF node.type = "folder" THEN 1 ELSE 0)

\* parentPath ? `${parentPath}/${name}` : name
JoinTreePath(parentPath, name) ==
    IF parentPath # <<>> THEN parentPath \o Slash \o name ELSE name

RECURSIVE createTreeNode(_, _, _)
createTreeNode(data, name, parentPath) ==
    LET currentPath == JoinTreePath(parentPath, name)
    IN IF data.k \in {"null", "undefined"}
       THEN TreeNode(name, "file", JStr(TextNull), <<>>)
       ELSE IF data.k = "object"
       THEN TreeNode(name, "folder", JNull,
                     [i \in 1..Len(data.c) |->
                         createTreeNode(data.c[i].val, data.c[i].key, currentPath)])
       ELSE IF data.k = "array"
       THEN TreeNode(name, "folder", JNull,
                     [i \in 1..Len(data.c) |->
                         createTreeNode(data.c[i], PlainItemName(i - 1), currentPath)])
       ELSE TreeNode(name \o getFileExtension(data), "file", data, <<>>)

generateTreeStructure(jsonData, rootName) == createTreeNode(jsonData, rootName, <<>>)

\* String(node.value || '').length
SizeOfValue(nodeValue) == IF Falsy(nodeValue) THEN 0 ELSE Len(ToStringValue(nodeValue))

\* node.value !== null ? String(node.value) : ''
ContentOfValue(nodeValue) == IF nodeValue.k = "null" THEN <<>> ELSE ToStringValue(nodeValue)

RECURSIVE Traverse(_, _, _)
RECURSIVE TraverseChildren(_, _, _, _)

\* a forEach that visits the children from the last to the first
TraverseChildrenReversed(children, i, fullPath, files) ==
    IF i > Len(children) THEN files
    ELSE Traverse(children[i], fullPath, TraverseChildren(children, i + 1, fullPath, files))

\* node.children.forEach(child => traverse(child, fullPath)) from the child of
\* index i on; files is the array the pushes go to
TraverseChildren(children, i, fullPath, files) ==
    IF i > Len(children) THEN files
    ELSE TraverseChildren(children, i + 1, fullPath, Traverse(children[i], fullPath, files))

\* traverse(node, currentPath) of flattenTreeToFiles
Traverse(node, currentPath, files) ==
    LET fullPath == JoinTreePath(currentPath, node.name)
    IN IF node.type = "file"
       THEN Append(files, [path |-> fullPath,
                           content |-> ContentOfValue(node.value),
                           size |-> SizeOfValue(node.value)])
       ELSE TraverseChildren(node.children, 1, fullPath, files)

flattenTreeToFiles(treeNode, basePath) == Traverse(treeNode, basePath, <<>>)

RECURSIVE calculateStats(_, _, _)
RECURSIVE CalculateChildren(_, _, _, _)
CalculateChildren(children, i, depth, stats) ==
    IF i > Len(children) THEN stats
    ELSE CalculateChildren(children, i + 1, depth,
                           calculateStats(children[i], depth, stats))

\* calculateStats(node, depth) of getTreeStatistics; stats is the object it
\* updates
calculateStats(node, depth, stats) ==
    LET deeper == [stats EXCEPT !.maxDepth = Max(stats.maxDepth, depth)]
    IN IF node.type = "file"
       THEN [deeper EXCEPT !.totalFiles = @ + 1,
                           !.totalSize = @ + SizeOfValue(node.value)]
       ELSE CalculateChildren(node.children, 1, depth + 1,
                              [deeper EXCEPT !.totalFolders = @ + 1])

getTreeStatistics(treeNode) ==
    calculateStats(treeNode, 0,
                   [totalFiles |-> 0, totalFolders |-> 0, maxDepth |-> 0, totalSize |-> 0])

\* the values the tree functions are run on: the JSON values, undefined, the
\* falsy scalars, and two values with a folder before a file
TreeInputs ==
    JsonInputs
    \cup {JNum(0), JBool(FALSE), JStr(<<>>),
          JObj(<<[key |-> <<"x">>, val |-> JNum(0)]>>),
          JArr(<<JBool(FALSE), JStr(<<>>)>>),
          JArr(<<JArr(<<JNum(1)>>), JNum(2)>>),
          JObj(<<[key |-> <<"x">>, val |-> JObj(<<[key |-> <<"x">>, val |-> JNull]>>)],
                 [key |-> <<"a", " ", "b">>, val |-> JStr(TextHtml)]>>)}

TreeInit ==
    /\ trPc = "start"
    /\ trData \in TreeInputs
    /\ trRoot \in RootNames
    /\ trNode = <<>>
    /\ trFiles = <<>>
    /\ trStats = <<>>
    /\ trCounts = <<>>
    /\ SanOff
    /\ ClsOff
    /\ CvOff
    /\ CallsOff
    /\ HomeMounted

GenerateTreeStructure ==
    /\ trPc = "start"
    /\ trNode' = <<generateTreeStructure(trData, trRoot)>>
    /\ trPc' = "built"
    /\ UNCHANGED <<trData, trRoot, trFiles, trStats, trCounts, sanVars, clsVars, cvVars,
                   calls, homeVars>>

FlattenTreeToFiles ==
    /\ trPc = "built"
    /\ trFiles = <<>>
    /\ trFiles' = <<flattenTreeToFiles(trNode[1], <<>>)>>
    /\ UNCHANGED <<trPc, trData, trRoot, trNode, trStats, trCounts, sanVars, clsVars,
                   cvVars, calls, homeVars>>

GetTreeStatistics ==
    /\ trPc = "built"
    /\ trStats = <<>>
    /\ trStats' = <<getTreeStatistics(trNode[1])>>
    /\ UNCHANGED <<trPc, trData, trRoot, trNode, trFiles, trCounts, sanVars, clsVars,
                   cvVars, calls, homeVars>>

\* root.getFileCount() and root.getFolderCount()
CountNodes ==
    /\ trPc = "built"
    /\ trCounts = <<>>
    /\ trCounts' = <<[files |-> getFileCount(trNode[1]),
                      folders |-> getFolderCount(trNode[1])]>>
    /\ UNCHANGED <<trPc, trData, trRoot, trNode, trFiles, trStats, sanVars, clsVars,
                   cvVars, calls, homeVars>>

TreeNext ==
    \/ GenerateTreeStructure
    \/ FlattenTreeToFiles
    \/ GetTreeStatistics
    \/ CountNodes

SpecTree == TreeInit /\ [][TreeNext]_vars

RECURSIVE FilePathsInOrder(_, _)
RECURSIVE FilePathsFrom(_, _, _)
\* the paths of the file nodes below the children from index i on, each
\* child's files before those of the next child
FilePathsFrom(children, i, prefix) ==
    IF i > Len(children) THEN <<>>
    ELSE FilePathsInOrder(children[i], prefix) \o FilePathsFrom(children, i + 1, prefix)

\* the paths of the file nodes of a tree in depth-first source order
FilePathsInOrder(node, prefix) ==
    IF node.type = "file" THEN <<prefix \o node.name>>
    ELSE FilePathsFrom(node.children, 1, prefix \o node.name \o Slash)

\* C29: flattenTreeToFiles returns one entry per file node, in depth-first
\* source order; their number is root.getFileCount() and totalFiles of
\* getTreeStatistics, and totalFolders is root.getFolderCount()
FlattenCountsAgree ==
    trFiles # <<>> /\ trStats # <<>> /\ trCounts # <<>> =>
        /\ [i \in 1..Len(trFiles[1]) |-> trFiles[1][i].path]
              = FilePathsInOrder(trNode[1], <<>>)
        /\ Len(trFiles[1]) = trCounts[1].files
        /\ Len(trFiles[1]) = trStats[1].totalFiles
        /\ trStats[1].totalFolders = trCounts[1].folders

\* a tree with a file in a nested folder before a file of the root folder,
\* flattened, counted and measured
FlattenedNestedTree ==
    /\ trFiles # <<>> /\ trStats # <<>> /\ trCounts # <<>>
    /\ trData = JArr(<<JArr(<<JNum(1)>>), JNum(2)>>)
    /\ Len(trFiles[1]) = 2
    /\ trCounts[1].folders = 2
    /\ trStats[1].maxDepth = 2

RECURSIVE SumOfLengths(_, _)
SumOfLengths(files, i) ==
    IF i > Len(files) THEN 0 ELSE Len(files[i].content) + SumOfLengths(files, i + 1)

\* C30: every entry of flattenTreeToFiles has size = length of its content,
\* and totalSize of getTreeStatistics is the sum of the content lengths
SizeIsContentLength ==
    trFiles # <<>> /\ trStats # <<>> =>
        /\ \A i \in 1..Len(trFiles[1]) : trFiles[1][i].size = Len(trFiles[1][i].content)
        /\ trStats[1].totalSize = SumOfLengths(trFiles[1], 1)

(***************************************************************************)
(* JSON.parse(text): the value of a text that ParsesAsJson accepts. A      *)
(* number keeps the text of its literal (the inputs are integers in        *)
(* canonical form); \b, \f and \u escapes are not among the inputs.        *)
(***************************************************************************)
UnescapeUnit(ch) ==
    IF ch = "n" THEN "\n"
    ELSE IF ch = "t" THEN "\t"
    ELSE IF ch = "r" THEN "\r"
    ELSE ch

RECURSIVE Unescape(_)
\* the units of a string literal's body
Unescape(s) ==
    IF s = <<>> THEN <<>>
    ELSE IF s[1] = "\\" /\ Len(s) >= 2
         THEN <<UnescapeUnit(s[2])>> \o Unescape(SubSeq(s, 3, Len(s)))
    ELSE <<s[1]>> \o Unescape(Tail(s))

\* obj[key] = val : a repeated key keeps its first position and takes the
\* later value
PutEntry(entries, key, val) ==
    IF \E i \in 1..Len(entries) : entries[i].key = key
    THEN [i \in 1..Len(entries) |->
            IF entries[i].key = key THEN [key |-> key, val |-> val] ELSE entries[i]]
    ELSE Append(entries, [key |-> key, val |-> val])

RECURSIVE ValueAt(_, _)
RECURSIVE ElementsAt(_, _)
RECURSIVE MembersAt(_, _, _)

\* the elements of an array from the element at i on
ElementsAt(s, i) ==
    LET j == SkipWs(s, ParseValue(s, i))
    IN <<ValueAt(s, i)>>
       \o (IF s[j] = "," THEN ElementsAt(s, SkipWs(s, j + 1)) ELSE <<>>)

\* the entries of an object from the member at i on, added to entries
MembersAt(s, i, entries) ==
    LET k == ScanString(s, i + 1)
        at == SkipWs(s, SkipWs(s, k) + 1)
        j == SkipWs(s, ParseValue(s, at))
        more == PutEntry(entries, Unescape(SubSeq(s, i + 1, k - 2)), ValueAt(s, at))
    IN IF s[j] = "," THEN MembersAt(s, SkipWs(s, j + 1), more) ELSE more

\* the value that starts at i
ValueAt(s, i) ==
    IF s[i] = "{"
    THEN LET j == SkipWs(s, i + 1)
         IN IF s[j] = "}" THEN JObj(<<>>) ELSE JObj(MembersAt(s, j, <<>>))
    ELSE IF s[i] = "["
    THEN LET j == SkipWs(s, i + 1)
         IN IF s[j] = "]" THEN JArr(<<>>) ELSE JArr(ElementsAt(s, j))
    ELSE IF s[i] = "\"" THEN JStr(Unescape(SubSeq(s, i + 1, ScanString(s, i + 1) - 2)))
    ELSE IF s[i] = "t" THEN JBool(TRUE)
    ELSE IF s[i] = "f" THEN JBool(FALSE)
    ELSE IF s[i] = "n" THEN JNull
    ELSE [k |-> "number", s |-> SubSeq(s, i, ParseNumber(s, i) - 1), c |-> <<>>]

JsonParse(s) == ValueAt(s, SkipWs(s, 1))

(***************************************************************************)
(* The Home page: its state, its handlers and the generation it starts     *)
(***************************************************************************)
\* the example text of the page, shortened to one folder with one file
ExampleJson ==
    <<"{", "\n", " ", " ", "\"", "p", "r", "o", "j", "e", "c", "t", "\"", ":", " ", "{",
      "\"", "R", "E", "A", "D", "M", "E", ".", "m", "d", "\"", ":", " ",
      "\"", "#", " ", "M", "y", "\"", "}", "\n", "}">>

TextBad == <<"{", "b", "a", "d">>
TextArray == <<"[", "1", "]">>
TextArraySpaced == <<"[", " ", "1", " ", "]">>
TextObject == <<"{", "\"", "x", "\"", ":", "0", "}">>

\* what the user can type: nothing, an invalid text, two texts of the same
\* value, an object, and the example itself
HomeTexts == {<<>>, TextBad, TextArray, TextArraySpaced, TextObject, ExampleJson}

\* generation runs the model lets one page start
MaxGenerations == 2

\* parseJsonStructure(parsed): the tree and its statistics, which is what the
\* page reads from the result (parsedStructure.tree, parsedStructure.stats)
parseJsonStructure(parsed) ==
    LET root == generateTreeStructure(parsed, <<"r", "o", "o", "t">>)
    IN [tree |-> root, stats |-> getTreeStatistics(root)]

MessageEnterJson == <<"Please enter JSON data">>
MessageInvalidJson(cause) == <<"Invalid JSON format: ", cause>>

\* generateZipFile wraps what was thrown, handleGenerateZip wraps that
MessageWithoutCause(cause) == <<"Failed to generate ZIP file: ", "Failed to generate ZIP: ">>
MessageFailedToGenerate(cause) ==
    <<"Failed to generate ZIP file: ", "Failed to generate ZIP: ", cause>>

ProjectRoot == <<"p", "r", "o", "j", "e", "c", "t">>
GenerateZipFileOptions ==
    [includeMetadata |-> TRUE, createReadme |-> TRUE, timestampFiles |-> FALSE]
DefaultDownloadName == <<"converted-json.zip">>

\* handleJsonChange(text), the onChange of the editor
HandleJsonChange ==
    /\ \E text \in HomeTexts \ {jsonInput} : jsonInput' = text
    /\ error' = <<>>
    /\ parsedStructure' = <<>>
    /\ showPreview' = FALSE
    /\ UNCHANGED <<isGenerating, generation, saved, genLog, sanVars, clsVars, cvVars, calls,
                   treeVars>>

\* handleParseJson, the onClick of 'Parse & Preview', which is disabled while
\* the text is blank
HandleParseJson ==
    /\ Trim(jsonInput) # <<>>
    /\ IF Trim(jsonInput) = <<>>
       THEN /\ error' = MessageEnterJson
            /\ UNCHANGED <<parsedStructure, showPreview>>
       ELSE IF ParsesAsJson(jsonInput)
       THEN /\ parsedStructure' = <<parseJsonStructure(JsonParse(jsonInput))>>
            /\ showPreview' = TRUE
            /\ error' = <<>>
       ELSE /\ error' = MessageInvalidJson("SyntaxError")
            /\ parsedStructure' = <<>>
            /\ showPreview' = FALSE
    /\ UNCHANGED <<jsonInput, isGenerating, generation, saved, genLog, sanVars, clsVars,
                   cvVars, calls, treeVars>>

\* the onClick of 'Load Example'
LoadExample ==
    /\ jsonInput' = ExampleJson
    /\ UNCHANGED <<parsedStructure, error, isGenerating, showPreview, generation, saved,
                   genLog, sanVars, clsVars, cvVars, calls, treeVars>>

\* generateZipFile(structure, text) up to the await of generateAsync: its
\* arguments, what it threw on the way ("" when it reached the await) and the
\* entries of the JSZip instance, built as generateZipFromJson of
\* lib/zipGenerator.js builds them
GenerateZipFileCall(structure, text) ==
    LET parses == ParsesAsJson(text)
        built == IF parses
                 THEN BuildZip(JsonParse(text), ProjectRoot, GenerateZipFileOptions, IsoNow)
                 ELSE [threw |-> FALSE, files |-> <<>>]
    IN [parsedStructure |-> structure, jsonInput |-> text,
        thrown |-> IF ~parses THEN "SyntaxError"
                   ELSE IF built.threw THEN "TypeError" ELSE "",
        files |-> built.files]

\* handleGenerateZip up to its await, the onClick of 'Download ZIP', which is
\* disabled while isGenerating; generateZipFile is called with the state of
\* this render
HandleGenerateZip ==
    /\ ~isGenerating
    /\ IF parsedStructure = <<>>
       THEN UNCHANGED <<isGenerating, generation, genLog>>
       ELSE /\ Len(genLog) < MaxGenerations
            /\ isGenerating' = TRUE
            /\ generation' = <<GenerateZipFileCall(parsedStructure, jsonInput)>>
            /\ genLog' = Append(genLog, [jsonInput |-> jsonInput, outcome |-> "pending",
                                         calls |-> 1, cause |-> "", reports |-> <<>>,
                                         archives |-> 0])
    /\ UNCHANGED <<jsonInput, parsedStructure, error, showPreview, saved, sanVars, clsVars,
                   cvVars, calls, treeVars>>

\* a handler without the finally block: isGenerating stays as it is
NoFinally(flag) == flag

\* isGenerating after the finally block of handleGenerateZip
Finally(flag) == FALSE

\* generateZipFromJson resolves, downloadZip saves the blob, handleGenerateZip
\* ends through its finally block
GenerateZipFileResolves ==
    /\ generation # <<>>
    /\ generation[1].thrown = ""
    /\ saved' = Append(saved, [filename |-> DefaultDownloadName,
                               files |-> generation[1].files])
    /\ isGenerating' = Finally(isGenerating)
    /\ generation' = <<>>
    /\ genLog' = [genLog EXCEPT ![Len(genLog)].outcome = "saved",
                                ![Len(genLog)].archives = @ + 1]
    /\ UNCHANGED <<jsonInput, parsedStructure, error, showPreview, sanVars, clsVars, cvVars,
                   calls, treeVars>>

\* generateZipFile rejects (JSON.parse or the archive builder threw, or
\* generateAsync rejected): the catch block sets the message, then finally
GenerateZipFileRejects ==
    /\ generation # <<>>
    /\ \E cause \in {"SyntaxError", "TypeError", "generateAsync"} :
        /\ cause = (IF generation[1].thrown # "" THEN generation[1].thrown
                    ELSE "generateAsync")
        /\ error' = MessageFailedToGenerate(cause)
        /\ genLog' = [genLog EXCEPT ![Len(genLog)].outcome = "failed",
                                    ![Len(genLog)].cause = cause,
                                    ![Len(genLog)].reports =
                                        Append(@, MessageFailedToGenerate(cause))]
    /\ isGenerating' = Finally(isGenerating)
    /\ generation' = <<>>
    /\ UNCHANGED <<jsonInput, parsedStructure, showPreview, saved, sanVars, clsVars, cvVars,
                   calls, treeVars>>

HomeInit ==
    /\ HomeMounted
    /\ SanOff
    /\ ClsOff
    /\ CvOff
    /\ CallsOff
    /\ TreeOff

HomeNext ==
    \/ HandleJsonChange
    \/ HandleParseJson
    \/ LoadExample
    \/ HandleGenerateZip
    \/ GenerateZipFileResolves
    \/ GenerateZipFileRejects

SpecHome == HomeInit /\ [][HomeNext]_vars

\* every generateZipFile promise settles: generateAsync finishes its work on a
\* finite archive and the continuation of the await is then run
SpecHomeLive ==
    HomeInit /\ [][HomeNext]_vars /\ WF_vars(GenerateZipFileResolves \/ GenerateZipFileRejects)

\* C26: whenever parsedStructure is not null it is the structure parsed from
\* the current jsonInput
PreviewMatchesInput ==
    parsedStructure # <<>> =>
        /\ ParsesAsJson(jsonInput)
        /\ parsedStructure[1] = parseJsonStructure(JsonParse(jsonInput))

\* C27: isGenerating is true only while a generation started by
\* handleGenerateZip is pending, a generation is started only with a
\* parsedStructure that is not null, and every started generation sets
\* isGenerating back to false
GenerationLifecycle ==
    /\ [](isGenerating => generation # <<>>)
    /\ [](generation # <<>> => isGenerating /\ generation[1].parsedStructure # <<>>)
    /\ (generation # <<>>) ~> (generation = <<>> /\ ~isGenerating)

\* both kinds of generation have ended, one saved and one failed, and
\* isGenerating is false again
GenerationsSettled ==
    /\ Len(genLog) = 2
    /\ genLog[1].outcome = "saved"
    /\ genLog[2].outcome = "failed"
    /\ generation = <<>>
    /\ ~isGenerating

(***************************************************************************)
(* The application: the Home page and, beside it, one request to the API   *)
(* route                                                                   *)
(***************************************************************************)
\* req.body.jsonData of the request: absent, or an array
AppBodies == {JNull, JArr(<<JNum(1)>>)}

AppInit ==
    /\ HomeMounted
    /\ cvPc = "idle"
    /\ argData \in AppBodies
    /\ argRoot = <<>>
    /\ argOptions = NoOptions
    /\ now = <<>>
    /\ zipFiles = <<>>
    /\ blob = <<>>
    /\ cvError = <<>>
    /\ tree = <<>>
    /\ statsOut = <<>>
    /\ req = <<>>
    /\ res = <<>>
    /\ zipOptions = <<>>
    /\ SanOff
    /\ ClsOff
    /\ CallsOff
    /\ TreeOff

AppNext ==
    \/ HomeNext
    \/ Handler
    \/ HandlerSendsZip
    \/ HandlerSendsError

SpecApp == AppInit /\ [][AppNext]_vars

\* C22: a failed serialization is reported once, as one error that carries the
\* cause, with no archive delivered and no second attempt: the Home page sets
\* one message and saves nothing, the API route sends one 500 response
FailureReportedOnce ==
    /\ \A g \in DOMAIN genLog :
          genLog[g].outcome = "failed" =>
              /\ Len(genLog[g].reports) = 1
              /\ genLog[g].cause # ""
              /\ genLog[g].reports[1][Len(genLog[g].reports[1])] = genLog[g].cause
              /\ genLog[g].archives = 0
              /\ genLog[g].calls = 1
    /\ Len(saved) = Cardinality({g \in DOMAIN genLog : genLog[g].outcome = "saved"})
    /\ (\E i \in DOMAIN res : res[i].status = 500) =>
          /\ Len(res) = 1
          /\ res[1].archive = <<>>
          /\ res[1].details # <<>>

\* the page has had a failed generation, saved nothing, and the API route has
\* answered 500
FailedOnPageAndRoute ==
    /\ Len(genLog) = 1
    /\ genLog[1].outcome = "failed"
    /\ genLog[1].cause = "generateAsync"
    /\ error = MessageFailedToGenerate("generateAsync")
    /\ saved = <<>>
    /\ cvPc = "responded"
    /\ res[1].status = 500

====
